---- MODULE Spec2Model ----
(***************************************************************************)
(* cargo-ci: the job graph (config/jobs.rs), the job selection and the run *)
(* loop (commands/run.rs) and the earlier per-package engine (jobs.rs).    *)
(*                                                                         *)
(* Each part of the program has its own specification over its own         *)
(* variables; the variables of the other parts stay at their idle values.  *)
(*   SpecGraph   Jobs::deserialize and detect_cycle                        *)
(*   SpecSort    topological_sort, get_transitive_needs, select_jobs       *)
(*   SpecRun     run_jobs and run_job                                      *)
(*   SpecLegacy  jobs.rs run_job, sequential and parallel                  *)
(*   SpecExec    both executors                                            *)
(*   SpecGating  jobs.rs run_job over steps with modifiers expressions     *)
(*   SpecOrder   both executors, real runs for two packages                *)
(*   SpecDry     both executors, dry and real, over expressions that may   *)
(*               not evaluate                                              *)
(*   SpecVars    run_jobs and run_job over the sources of one variable     *)
(*   SpecTwice   a dry run, then a real run of the same command line, by   *)
(*               both executors                                            *)
(*   SpecErrors  run_jobs over two jobs, expressions that may not evaluate *)
(*               and commands that may fail                                *)
(*   SpecErrorsLive  SpecErrors, when run_jobs is not halted from outside  *)
(*               and every spawned command exits                           *)
(*   SpecModifiers  modifier_expression.rs evaluate                        *)
(*   SpecStrings    evaluate on every short string of characters           *)
(***************************************************************************)
EXTENDS Integers, Sequences, FiniteSets, TLC

VARIABLES
    \* ---- graph construction (config/jobs.rs, Jobs::deserialize) ----
    jobs_map,      \* job id -> its needs (HashMap<JobId, Job>, needs only)
    g_pc,          \* position in deserialize: "check", "outer", "dfs", "done"
    keys,          \* job ids the outer loop over jobs_map.keys() has not yielded yet
    visited,       \* detect_cycle's visited map (ids mapped to true)
    path,          \* detect_cycle's path vector (the recursion stack)
    needs_iter,    \* per stack frame, the needs the frame's loop has not yielded yet
    g_result       \* what deserialize returned: kind "none" (not yet), "ok", "unknown" or "cycle"

gVars == <<jobs_map, g_pc, keys, visited, path, needs_iter, g_result>>

VARIABLES
    \* ---- job selection (config/jobs.rs queries, commands/run.rs select_jobs) ----
    s_jobs,        \* the constructed Jobs: job id -> its needs (acyclic, every need known)
    default_jobs,  \* Config::default_jobs
    s_call         \* the last query made and what it returned

sVars == <<s_jobs, default_jobs, s_call>>

VARIABLES
    \* ---- the run loop (commands/run.rs, run_jobs and run_job) ----
    r_host,        \* the Host: host.vars(), and whether the build is for Windows
    r_cfg,         \* the Config: needs, per job its steps, conditional, continue_on_error, variables
    r_args,        \* the RunArgs: dry_run, variable; and the selected packages
    r_env,         \* env_vars: the host variables that passed the passthrough filter
    r_jobs,        \* jobs: what select_jobs returned
    r_pc,          \* position: "env", "job", "step", "pp", "ws", "finish", "done"
    r_i,           \* index into jobs of the job being run
    r_s,           \* index into job.steps() of the step being run
    r_coe,         \* continue_on_error of the job being run (line 104)
    r_todo,        \* packages_to_process the per-package loop has not yielded yet
    r_res,         \* result: what run_job returned for the job being run
    r_outcome,     \* per job, how run_jobs completed its activity
    r_result,      \* what run_jobs returned
    r_log,         \* what reached the outputter and the host, in order
    r_fails        \* number of commands that have failed so far

rVars == <<r_host, r_cfg, r_args, r_env, r_jobs, r_pc, r_i, r_s, r_coe, r_todo, r_res,
           r_outcome, r_result, r_log, r_fails>>

VARIABLES
    \* ---- the job executor of jobs.rs (run_job, sequential and parallel) ----
    l_ctx,             \* the JobExecutionContext: job, packages, dry_run, keep_going
    l_out,             \* what host.execute comes to, per step and package
    l_pc,              \* position: "seq", "par", "done"
    l_seq,             \* run_job(parallel = false): what it returned and what it executed
    l_idx,             \* parallel: per package, the step its closure is at
    failure_counter,   \* parallel: the AtomicUsize of failures
    step_counter,      \* parallel: the AtomicUsize of steps
    failures_list,     \* parallel: the Mutex<Vec> of failure messages
    l_calls,           \* parallel: the host.execute calls, in the order they were made
    l_par              \* run_job(parallel = true): what it returned

lVars == <<l_ctx, l_out, l_pc, l_seq, l_idx, failure_counter, step_counter, failures_list,
           l_calls, l_par>>

VARIABLES
    \* ---- the modifier expressions (modifier_expression.rs, evaluate) ----
    m_ast,         \* the derivation the expression was written from
    m_expr,        \* expression: the characters handed to evaluate
    m_mods,        \* modifiers: the modifiers that are defined
    m_pc,          \* position: "call", "done"
    m_out          \* what evaluate returned

mVars == <<m_ast, m_expr, m_mods, m_pc, m_out>>

VARIABLES
    \* ---- the summary (job_result.rs, print_summary) ----
    p_results,     \* results: the JobResults handed to print_summary
    p_pc,          \* position in print_summary: "jobs" (the loop), "done"
    p_i,           \* the index of the result the loop is at
    p_total,       \* total_jobs, total_pkgs, total_steps, total_failures
    p_lines,       \* the "Job ..." lines printed so far
    p_out          \* the "Total ..." line and the "Overall: ..." line

pVars == <<p_results, p_pc, p_i, p_total, p_lines, p_out>>

VARIABLES
    \* ---- a dry run followed by a real run of the same command line ----
    r_plan         \* what the dry run before this run logged and returned

tVars == <<r_plan>>

vars == <<gVars, sVars, rVars, lVars, mVars, pVars, tVars>>

\* what the actions of one part leave alone
notG == <<sVars, rVars, lVars, mVars, pVars, tVars>>
notS == <<gVars, rVars, lVars, mVars, pVars, tVars>>
notR == <<gVars, sVars, lVars, mVars, pVars, tVars>>
notL == <<gVars, sVars, rVars, mVars, pVars, tVars>>
notM == <<gVars, sVars, rVars, lVars, pVars, tVars>>
notP == <<gVars, sVars, rVars, lVars, mVars, tVars>>

(***************************************************************************)
(* The values the variables of a part have while another part runs.        *)
(***************************************************************************)
IdleGraph ==
    /\ jobs_map = [j \in {} |-> {}]
    /\ g_pc = "idle"
    /\ keys = {}
    /\ visited = {}
    /\ path = <<>>
    /\ needs_iter = <<>>
    /\ g_result = [kind |-> "none"]

IdleSort ==
    /\ s_jobs = [j \in {} |-> {}]
    /\ default_jobs = {}
    /\ s_call = [op |-> "idle"]

IdleRun ==
    /\ r_host = [kind |-> "idle"]
    /\ r_cfg = [kind |-> "idle"]
    /\ r_args = [kind |-> "idle"]
    /\ r_env = <<>>
    /\ r_jobs = <<>>
    /\ r_pc = "idle"
    /\ r_i = 0
    /\ r_s = 0
    /\ r_coe = FALSE
    /\ r_todo = {}
    /\ r_res = [kind |-> "none"]
    /\ r_outcome = <<>>
    /\ r_result = [kind |-> "none"]
    /\ r_log = <<>>
    /\ r_fails = 0

IdleLegacy ==
    /\ l_ctx = [kind |-> "idle"]
    /\ l_out = <<>>
    /\ l_pc = "idle"
    /\ l_seq = [kind |-> "none"]
    /\ l_idx = <<>>
    /\ failure_counter = 0
    /\ step_counter = 0
    /\ failures_list = <<>>
    /\ l_calls = <<>>
    /\ l_par = [kind |-> "none"]

IdleModifiers ==
    /\ m_ast = [op |-> "idle"]
    /\ m_expr = <<>>
    /\ m_mods = <<>>
    /\ m_pc = "idle"
    /\ m_out = [kind |-> "none"]

IdleSummary ==
    /\ p_results = <<>>
    /\ p_pc = "idle"
    /\ p_i = 0
    /\ p_total = [kind |-> "idle"]
    /\ p_lines = <<>>
    /\ p_out = [kind |-> "idle"]

IdleRerun == r_plan = [kind |-> "none"]

IdleButGraph == IdleSort /\ IdleRun /\ IdleLegacy /\ IdleModifiers /\ IdleSummary /\ IdleRerun
IdleButSort == IdleGraph /\ IdleRun /\ IdleLegacy /\ IdleModifiers /\ IdleSummary /\ IdleRerun
IdleButRun == IdleGraph /\ IdleSort /\ IdleLegacy /\ IdleModifiers /\ IdleSummary /\ IdleRerun
IdleButLegacy == IdleGraph /\ IdleSort /\ IdleRun /\ IdleModifiers /\ IdleSummary /\ IdleRerun
IdleButModifiers == IdleGraph /\ IdleSort /\ IdleRun /\ IdleLegacy /\ IdleSummary /\ IdleRerun
IdleButSummary == IdleGraph /\ IdleSort /\ IdleRun /\ IdleLegacy /\ IdleModifiers /\ IdleRerun

(***************************************************************************)
(* Bounds and the finite universe of ids.                                  *)
(***************************************************************************)
JobIds == {"a", "b", "c", "d"}

\* an id that names no job (only ever appears inside a needs set)
Ghost == "ghost"

\* the largest number of needs entries of a generated configuration
MaxEdges == 4

RECURSIVE EdgeSetsUpTo(_, _)
EdgeSetsUpTo(E, k) ==
    IF k = 0 THEN {{}}
    ELSE LET prev == EdgeSetsUpTo(E, k - 1)
         IN  prev \cup {S \cup {e} : S \in prev, e \in E}

NeedsOf(E) == [j \in JobIds |-> {e[2] : e \in {x \in E : x[1] = j}}]

\* every needs relation over JobIds with at most MaxEdges entries, unknown ids included
RawGraphs == {NeedsOf(E) : E \in EdgeSetsUpTo(JobIds \X (JobIds \cup {Ghost}), MaxEdges)}

(***************************************************************************)
(* Reference notions, used only to state properties.                       *)
(***************************************************************************)
RECURSIVE ReachFrom(_, _, _)
\* ids reachable from the frontier F through needs edges (F included), job ids only
ReachFrom(needs, F, seen) ==
    IF F \subseteq seen THEN seen
    ELSE LET new == F \ seen
         IN  ReachFrom(needs, (UNION {needs[j] : j \in new}) \cap DOMAIN needs, seen \cup new)

\* the direct and indirect needs of j
TransDeps(needs, j) == ReachFrom(needs, needs[j] \cap DOMAIN needs, {})

HasCycle(needs) == \E j \in DOMAIN needs : j \in TransDeps(needs, j)

AllKnown(needs) == \A j \in DOMAIN needs : needs[j] \subseteq DOMAIN needs

(***************************************************************************)
(* Jobs::deserialize (config/jobs.rs 92-132) and detect_cycle (134-158).   *)
(* HashMap and HashSet iteration orders are unspecified: each loop yields  *)
(* any element it has not yielded yet.                                     *)
(***************************************************************************)
InitGraphVars ==
    /\ g_pc = "check"
    /\ keys = {}
    /\ visited = {}
    /\ path = <<>>
    /\ needs_iter = <<>>
    /\ g_result = [kind |-> "none"]

InitGraph ==
    /\ jobs_map \in RawGraphs
    /\ InitGraphVars
    /\ IdleButGraph

\* path.contains(&needed_job_id), line 145
PathContainsNever(p, id) == FALSE

PathContains(p, id) == \E i \in 1..Len(p) : p[i] = id

\* the vector the error message joins with " -> ": the whole path, then the needed id (146-147)
CyclePath(p, needed) == Append(p, needed)

\* a faulty variant of lines 99-107: the needs are not looked up
CheckUnknownNeedsSkipped ==
    /\ g_pc = "check"
    /\ g_pc' = "outer"
    /\ keys' = DOMAIN jobs_map
    /\ UNCHANGED <<g_result, jobs_map, visited, path, needs_iter, notG>>

\* lines 99-107: the first job with an unknown need ends deserialize
\* (the duplicate step id check of 109-117 needs steps and is not part of this model)
CheckUnknownNeeds ==
    /\ g_pc = "check"
    /\ IF \E j \in DOMAIN jobs_map : ~(jobs_map[j] \subseteq DOMAIN jobs_map)
       THEN \E j \in DOMAIN jobs_map : \E n \in jobs_map[j] \ DOMAIN jobs_map :
               /\ g_result' = [kind |-> "unknown", job |-> j, needed |-> n]
               /\ g_pc' = "done"
               /\ UNCHANGED keys
       ELSE /\ g_pc' = "outer"
            /\ keys' = DOMAIN jobs_map
            /\ UNCHANGED g_result
    /\ UNCHANGED <<jobs_map, visited, path, needs_iter, notG>>

\* lines 120-130: the loop over jobs_map.keys()
OuterLoop ==
    /\ g_pc = "outer"
    /\ IF keys = {}
       THEN /\ g_result' = [kind |-> "ok"]
            /\ g_pc' = "done"
            /\ UNCHANGED <<keys, visited, path, needs_iter>>
       ELSE \E k \in keys :
               /\ keys' = keys \ {k}
               /\ UNCHANGED g_result
               /\ IF k \notin visited
                  THEN \* detect_cycle(job_id, ..): lines 140-141
                       /\ path' = <<k>>
                       /\ visited' = visited \cup {k}
                       /\ needs_iter' = <<jobs_map[k]>>
                       /\ g_pc' = "dfs"
                  ELSE UNCHANGED <<g_pc, visited, path, needs_iter>>
    /\ UNCHANGED <<jobs_map, notG>>

\* one iteration of the loop of lines 144-153 in the innermost detect_cycle call,
\* or its return (156-157) when the loop is exhausted
DetectCycleStep ==
    /\ g_pc = "dfs"
    /\ LET top == Len(path) IN
       IF needs_iter[top] = {}
       THEN /\ path' = SubSeq(path, 1, top - 1)
            /\ needs_iter' = SubSeq(needs_iter, 1, top - 1)
            /\ g_pc' = IF top = 1 THEN "outer" ELSE "dfs"
            /\ UNCHANGED <<visited, g_result>>
       ELSE \E n \in needs_iter[top] :
               IF PathContains(path, n)
               THEN /\ g_result' = [kind |-> "cycle", cycle_path |-> CyclePath(path, n)]
                    /\ g_pc' = "done"
                    /\ UNCHANGED <<visited, path, needs_iter>>
               ELSE IF n \notin visited
               THEN /\ path' = Append(path, n)
                    /\ visited' = visited \cup {n}
                    /\ needs_iter' = Append([needs_iter EXCEPT ![top] = @ \ {n}], jobs_map[n])
                    /\ UNCHANGED <<g_pc, g_result>>
               ELSE /\ needs_iter' = [needs_iter EXCEPT ![top] = @ \ {n}]
                    /\ UNCHANGED <<g_pc, visited, path, g_result>>
    /\ UNCHANGED <<jobs_map, keys, notG>>

NextGraph ==
    \/ CheckUnknownNeeds
    \/ OuterLoop
    \/ DetectCycleStep

SpecGraph == InitGraph /\ [][NextGraph]_vars

IsCycleError == g_result.kind = "cycle"

\* C8: construction succeeds only for an acyclic needs relation, fails for every
\* relation with a cycle whatever the iteration order, and reports a cycle only
\* when there is one.
C8_ConstructionIffAcyclic ==
    g_pc = "done" =>
        /\ (g_result.kind = "ok" => ~HasCycle(jobs_map) /\ AllKnown(jobs_map))
        /\ (AllKnown(jobs_map) /\ HasCycle(jobs_map) => IsCycleError)
        /\ (IsCycleError => HasCycle(jobs_map))

\* a diamond (a needs b and c, both need d) was accepted
C8_Witness ==
    /\ g_pc = "done"
    /\ g_result.kind = "ok"
    /\ jobs_map = [j \in JobIds |-> CASE j = "a" -> {"b", "c"}
                                      [] j = "b" -> {"d"}
                                      [] j = "c" -> {"d"}
                                      [] OTHER -> {}]

\* p is a cycle of the needs relation, closed by its first id, with no other id
ClosedCycle(needs, p) ==
    /\ Len(p) >= 2
    /\ p[1] = p[Len(p)]
    /\ \A i \in 1..(Len(p) - 1) : p[i + 1] \in needs[p[i]]
    /\ \A i, k \in 1..(Len(p) - 1) : i # k => p[i] # p[k]

\* three jobs form the cycle x -> y -> z -> x and need nothing else
HasThreeCycle(needs) ==
    \E x, y, z \in DOMAIN needs :
        /\ x # y /\ y # z /\ x # z
        /\ needs[x] = {y} /\ needs[y] = {z} /\ needs[z] = {x}

\* C9: when construction fails on a graph with a cycle a -> b -> c -> a, the path
\* reported is exactly that cycle, closed by its first id, whatever job the
\* traversal started from.
C9_ReportedPathIsTheCycle ==
    (g_pc = "done" /\ IsCycleError /\ HasThreeCycle(jobs_map))
        => ClosedCycle(jobs_map, g_result.cycle_path)

(***************************************************************************)
(* Jobs::topological_sort (config/jobs.rs 23-59), get_transitive_needs     *)
(* (61-89) and select_jobs (commands/run.rs 329-376).  The three are pure  *)
(* but for the iteration order of the hash containers they walk, so each   *)
(* is the set of the results it can return.                                *)
(***************************************************************************)
Range(q) == {q[i] : i \in 1..Len(q)}

RECURSIVE PermSeqs(_)
\* the orders in which an iterator can yield the elements of S
PermSeqs(S) ==
    IF S = {} THEN {<<>>}
    ELSE UNION {{<<x>> \o p : p \in PermSeqs(S \ {x})} : x \in S}

\* lines 24-34 with every count left at 0
InDegreeZero(needs, jobs_to_sort) == [j \in jobs_to_sort |-> 0]

\* lines 24-34: per job of the subset, the number of its needs inside the subset
InDegree(needs, jobs_to_sort) ==
    [j \in jobs_to_sort |->
        IF j \in DOMAIN needs THEN Cardinality(needs[j] \cap jobs_to_sort) ELSE 0]

RECURSIVE KahnLoop(_, _, _, _, _)
\* lines 39-56: the while loop over the queue
KahnLoop(needs, jobs_to_sort, in_degree, queue, sorted_jobs) ==
    IF queue = <<>> THEN {sorted_jobs}
    ELSE LET job_id == Head(queue)
             \* line 41-43: pushed only when the id is a key of the map
             pushed == IF job_id \in DOMAIN needs
                       THEN Append(sorted_jobs, job_id) ELSE sorted_jobs
             \* lines 45-50: every job of the subset that needs job_id loses one
             hit == {o \in DOMAIN needs : job_id \in needs[o] /\ o \in jobs_to_sort}
             degree == [o \in jobs_to_sort |->
                          IF o \in hit THEN in_degree[o] - 1 ELSE in_degree[o]]
             \* lines 51-53: those that reach 0 join the queue, in iteration order
             ready == {o \in hit : degree[o] = 0}
         IN  UNION {KahnLoop(needs, jobs_to_sort, degree, Tail(queue) \o p, pushed)
                      : p \in PermSeqs(ready)}

\* lines 23-59
topological_sort(needs, jobs_to_sort) ==
    LET in_degree == InDegree(needs, jobs_to_sort)
        zero == {j \in jobs_to_sort : in_degree[j] = 0}
    IN  UNION {KahnLoop(needs, jobs_to_sort, in_degree, q, <<>>) : q \in PermSeqs(zero)}

RECURSIVE TransitiveLoopUnchecked(_, _, _, _)
\* a faulty variant of lines 72-86: the check of lines 73-75 left out
TransitiveLoopUnchecked(needs, queue, seen, result) ==
    IF queue = <<>> THEN {result}
    ELSE LET current_job_id == Head(queue)
             seen2 == seen \cup {current_job_id}
             more == IF current_job_id \in DOMAIN needs
                     THEN needs[current_job_id] \ seen2 ELSE {}
         IN  UNION {TransitiveLoopUnchecked(needs, Tail(queue) \o p, seen2,
                                            Append(result, current_job_id))
                      : p \in PermSeqs(more)}

RECURSIVE TransitiveLoop(_, _, _, _)
\* lines 72-86: the breadth-first loop
TransitiveLoop(needs, queue, seen, result) ==
    IF queue = <<>> THEN {result}
    ELSE LET current_job_id == Head(queue) IN
         IF current_job_id \in seen
         THEN TransitiveLoop(needs, Tail(queue), seen, result)
         ELSE LET seen2 == seen \cup {current_job_id}
                  more == IF current_job_id \in DOMAIN needs
                          THEN needs[current_job_id] \ seen2 ELSE {}
              IN  UNION {TransitiveLoop(needs, Tail(queue) \o p, seen2,
                                        Append(result, current_job_id))
                           : p \in PermSeqs(more)}

\* a faulty variant of lines 61-89: the needs of the job itself and no more
get_direct_needs(needs, job_id) ==
    PermSeqs(IF job_id \in DOMAIN needs THEN needs[job_id] ELSE {})

\* lines 61-89
get_transitive_needs(needs, job_id) ==
    LET first == IF job_id \in DOMAIN needs THEN needs[job_id] ELSE {}
    IN  UNION {TransitiveLoop(needs, q, {}, <<>>) : q \in PermSeqs(first)}

RECURSIVE ExtraNeeds(_, _)
\* run.rs 363-369: the set collecting the transitive needs of every job to run
ExtraNeeds(needs, jobs_to_run) ==
    IF jobs_to_run = {} THEN {{}}
    ELSE LET j == CHOOSE x \in jobs_to_run : TRUE
         IN  {Range(extras) \cup rest :
                 extras \in get_transitive_needs(needs, j),
                 rest \in ExtraNeeds(needs, jobs_to_run \ {j})}

\* a faulty variant of run.rs 334-339: the default jobs are not looked at
RequestedJobsWithoutDefaults(needs, defaults, args_jobs) ==
    IF args_jobs = {} THEN DOMAIN needs ELSE args_jobs

\* run.rs 334-357: the jobs named on the command line, else the default jobs,
\* else every job; an error when a name is no job id
RequestedJobs(needs, defaults, args_jobs) ==
    IF args_jobs = {}
    THEN IF defaults = {} THEN DOMAIN needs ELSE defaults
    ELSE args_jobs

\* run.rs 329-376
select_jobs(needs, defaults, args_jobs) ==
    IF DOMAIN needs = {}
    THEN {[kind |-> "err", msg |-> "no jobs are defined in configuration"]}
    ELSE IF args_jobs # {} /\ ~(args_jobs \subseteq DOMAIN needs)
    THEN {[kind |-> "err", msg |-> "invalid jobs specified"]}
    ELSE LET jobs_to_run == RequestedJobs(needs, defaults, args_jobs) IN
         IF jobs_to_run = {}
         THEN {[kind |-> "err", msg |-> "no jobs to run"]}
         ELSE UNION {{[kind |-> "ok", jobs |-> out]
                        : out \in topological_sort(needs, jobs_to_run \cup extra)}
                      : extra \in ExtraNeeds(needs, jobs_to_run)}

\* the graphs Jobs::deserialize accepts: every need known, no cycle
ValidGraphs ==
    {g \in {NeedsOf(E) : E \in EdgeSetsUpTo(JobIds \X JobIds, MaxEdges)} : ~HasCycle(g)}

DefaultJobsChoices == {{}, {"a"}, {"b", "c"}}

\* what can be named on the command line: job ids and one name that is no job
ArgsChoices == SUBSET (JobIds \cup {Ghost})

InitSort ==
    /\ s_jobs \in ValidGraphs
    /\ default_jobs \in DefaultJobsChoices
    /\ s_call = [op |-> "none"]
    /\ IdleButSort

CallTopologicalSort ==
    /\ s_call.op = "none"
    /\ \E jobs_to_sort \in SUBSET JobIds :
         \E out \in topological_sort(s_jobs, jobs_to_sort) :
            s_call' = [op |-> "topological_sort", jobs_to_sort |-> jobs_to_sort, out |-> out]
    /\ UNCHANGED <<s_jobs, default_jobs, notS>>

CallGetTransitiveNeeds ==
    /\ s_call.op = "none"
    /\ \E job_id \in JobIds :
         \E out \in get_transitive_needs(s_jobs, job_id) :
            s_call' = [op |-> "get_transitive_needs", job_id |-> job_id, out |-> out]
    /\ UNCHANGED <<s_jobs, default_jobs, notS>>

CallSelectJobs ==
    /\ s_call.op = "none"
    /\ \E args_jobs \in ArgsChoices :
         \E out \in select_jobs(s_jobs, default_jobs, args_jobs) :
            s_call' = [op |-> "select_jobs", args_jobs |-> args_jobs, out |-> out]
    /\ UNCHANGED <<s_jobs, default_jobs, notS>>

\* The queries only read the Jobs, so a behaviour makes one query: a second one
\* would start from the same Jobs and has the same results.
NextSort ==
    \/ CallTopologicalSort
    \/ CallGetTransitiveNeeds
    \/ CallSelectJobs

SpecSort == InitSort /\ [][NextSort]_vars

\* x stands strictly before y in q
Before(q, x, y) == \E i, k \in 1..Len(q) : i < k /\ q[i] = x /\ q[k] = y

NoDuplicates(q) == \A i, k \in 1..Len(q) : i # k => q[i] # q[k]

\* C1: for every acyclic graph and every subset S of its ids, closed under needs or
\* not, topological_sort(S) puts each job after every direct or indirect need of
\* it that is in S.
C1_SortRespectsTransitiveNeeds ==
    s_call.op = "topological_sort" =>
        \A j \in s_call.jobs_to_sort :
            \A d \in TransDeps(s_jobs, j) \cap s_call.jobs_to_sort :
                Before(s_call.out, d, j)

\* C10: the list select_jobs returns holds the requested jobs and all their direct
\* and indirect needs, each once, nothing else, every job after the jobs it needs.
C10_SelectedJobsClosedAndOrdered ==
    (s_call.op = "select_jobs" /\ s_call.out.kind = "ok") =>
        LET requested == RequestedJobs(s_jobs, default_jobs, s_call.args_jobs)
            wanted == requested \cup UNION {TransDeps(s_jobs, j) : j \in requested}
            jobs == s_call.out.jobs
        IN  /\ Range(jobs) = wanted
            /\ NoDuplicates(jobs)
            /\ \A j \in wanted : \A n \in s_jobs[j] : Before(jobs, n, j)

\* one job was named, and it came back behind a need of a need of it
C10_Witness ==
    /\ s_call.op = "select_jobs"
    /\ s_call.out.kind = "ok"
    /\ Cardinality(s_call.args_jobs) = 1
    /\ \E j \in s_call.args_jobs : \E n \in s_jobs[j] : \E m \in s_jobs[n] :
          /\ m \notin s_jobs[j]
          /\ Before(s_call.out.jobs, m, n) /\ Before(s_call.out.jobs, n, j)

(***************************************************************************)
(* Expressions (expressions/*.rs) and the variable layers run.rs chains.   *)
(* An expression is a boolean literal, a comparison of a variable with a   *)
(* string, or a bare variable (which evaluates to a string, not a boolean).*)
(***************************************************************************)
EmptyVars == [k \in {} |-> ""]

\* a faulty variant of the chain: the earlier value of a name is kept
MergeKeepFirst(low, high) ==
    [k \in DOMAIN low \cup DOMAIN high |-> IF k \in DOMAIN low THEN low[k] ELSE high[k]]

\* HashMapContext::set_value in chain order: the later value of a name replaces the earlier
Merge(low, high) ==
    [k \in DOMAIN low \cup DOMAIN high |-> IF k \in DOMAIN high THEN high[k] ELSE low[k]]

RECURSIVE Chain(_)
\* expression.rs 27-33: the context built from the chained layers
Chain(layers) ==
    IF layers = <<>> THEN EmptyVars
    ELSE Merge(Chain(SubSeq(layers, 1, Len(layers) - 1)), layers[Len(layers)])

Bool(b) == [e |-> "bool", b |-> b]
Eq(v, c) == [e |-> "eq", var |-> v, val |-> c]
Str(v) == [e |-> "var", var |-> v]

\* Expression::evaluate (expression.rs 26-40): an unknown identifier and a
\* result that is no boolean are errors
ExpressionEvaluate(x, variables) ==
    IF x.e = "eq" /\ x.var \in DOMAIN variables
    THEN [ok |-> TRUE, val |-> variables[x.var] = x.val]
    ELSE [ok |-> FALSE, val |-> FALSE]

\* a faulty variant: an expression that does not evaluate counts as false
EvaluateLenient(c, variables) ==
    IF c.e = "bool" THEN [ok |-> TRUE, val |-> c.b]
    ELSE [ok |-> TRUE, val |-> ExpressionEvaluate(c, variables).val]

\* Conditional::evaluate and ContinueOnError::evaluate (conditional.rs 12-17,
\* continue_on_error.rs 12-17)
Evaluate(c, variables) ==
    IF c.e = "bool" THEN [ok |-> TRUE, val |-> c.b] ELSE ExpressionEvaluate(c, variables)

(***************************************************************************)
(* run_jobs and run_job (commands/run.rs 67-308).                          *)
(***************************************************************************)
RunJobIds == {"a", "b"}

\* the largest number of steps of a generated job
MaxSteps == 2

\* the largest number of commands that fail in one run
MaxFails == 1

\* pkg_data::variables: p0 declares no variable, every other package declares
\* X as its own name
PackageVariables(pkg) == IF pkg = "p0" THEN EmptyVars ELSE [k \in {"X"} |-> pkg]

\* Step::Simple: once in the workspace, always, failure not tolerated (step.rs 61-83)
SimpleStep ==
    [per_package |-> FALSE, conditional |-> Bool(TRUE),
     continue_on_error |-> Bool(FALSE), variables |-> EmptyVars]

StepKinds ==
    { SimpleStep,
      [SimpleStep EXCEPT !.continue_on_error = Bool(TRUE)],
      [SimpleStep EXCEPT !.per_package = TRUE, !.continue_on_error = Eq("X", "p1")],
      [SimpleStep EXCEPT !.conditional = Eq("X", "p1")],
      [SimpleStep EXCEPT !.continue_on_error = Str("X")] }

StepLists == UNION {[1..n -> StepKinds] : n \in 0..MaxSteps}

\* job a is any job over the step kinds; job b is a job of one simple step
RunConfigs ==
    { [needs |-> g,
       jobs |-> [j \in RunJobIds |->
                   IF j = "a"
                   THEN [steps |-> st, conditional |-> cond,
                         continue_on_error |-> Bool(ca), variables |-> EmptyVars]
                   ELSE [steps |-> <<SimpleStep>>, conditional |-> Bool(TRUE),
                         continue_on_error |-> Bool(FALSE), variables |-> EmptyVars]],
       passthrough_env_variables |-> {},
       variables |-> EmptyVars]
      : g \in {h \in [RunJobIds -> SUBSET RunJobIds] : ~HasCycle(h)},
        st \in StepLists,
        cond \in {Bool(TRUE), Bool(FALSE), Eq("X", "p1")},
        ca \in BOOLEAN }

PackageSelections == {<<>>, <<"p1">>, <<"p2">>, <<"p1", "p2">>}

\* select_packages (lines 378-407) pushes a package once for each -p that names it
RunPackageSelections == PackageSelections \cup {<<"p1", "p1">>}

\* a host without environment variables
EmptyHost == [vars |-> EmptyVars, windows |-> FALSE]

\* eq_ignore_ascii_case (line 74), over the names of the model
AsciiFold(name) == IF name = "x" THEN "X" ELSE name

\* lines 71-80: the host variables that get into env_vars
ImportEnv(host_vars, passthrough, windows) ==
    LET listed(k) == IF windows
                     THEN \E v \in passthrough : AsciiFold(v) = AsciiFold(k)
                     ELSE k \in passthrough
    IN  [k \in {x \in DOMAIN host_vars : listed(x)} |-> host_vars[k]]

\* the state run_jobs is in after select_jobs and select_packages (line 70)
InitRun ==
    /\ r_host = EmptyHost
    /\ r_cfg \in RunConfigs
    /\ r_args \in {[dry_run |-> d, variable |-> EmptyVars, packages |-> ps]
                     : d \in BOOLEAN, ps \in RunPackageSelections}
    /\ r_env = EmptyVars
    /\ r_jobs \in UNION {{o.jobs : o \in {x \in select_jobs(r_cfg.needs, {}, aj) : x.kind = "ok"}}
                           : aj \in SUBSET RunJobIds}
    /\ r_pc = "env"
    /\ r_i = 1
    /\ r_s = 0
    /\ r_coe = FALSE
    /\ r_todo = {}
    /\ r_res = [kind |-> "none"]
    /\ r_outcome = [j \in RunJobIds |-> [activity |-> "none", result |-> [kind |-> "none"]]]
    /\ r_result = [kind |-> "none"]
    /\ r_log = <<>>
    /\ r_fails = 0
    /\ IdleButRun

\* a faulty variant of line 106: the variables of the job chained in
JobCoeVarsWithJob ==
    Chain(<<r_env, r_cfg.variables, r_cfg.jobs[r_jobs[r_i]].variables, r_args.variable>>)

\* line 106: the variables the job's continue_on_error is evaluated against
JobCoeVars == Chain(<<r_env, r_cfg.variables, r_args.variable>>)

\* line 144: the variables the job's condition is evaluated against
JobCondVars(pkg) ==
    Chain(<<r_env, r_cfg.variables, PackageVariables(pkg), r_args.variable>>)

\* a faulty variant of lines 150-156: the package chained in before the job
StepCondVarsPackageFirst(job, pkg) ==
    Chain(<<r_env, r_cfg.variables, PackageVariables(pkg), job.variables, r_args.variable>>)

\* lines 150-156: the variables the step's condition is evaluated against
StepCondVars(job, pkg) ==
    Chain(<<r_env, r_cfg.variables, job.variables, PackageVariables(pkg), r_args.variable>>)

WorkspaceCoeVars(job) ==
    Chain(<<r_env, r_cfg.variables, job.variables, r_args.variable>>)

\* lines 167-178
StepCoeVars(job, step, pkg) ==
    IF step.per_package THEN StepCondVars(job, pkg) ELSE WorkspaceCoeVars(job)

RECURSIVE PackagesToProcess(_, _, _, _)
\* lines 140-162: the packages neither condition excludes; an evaluation error ends run_job
PackagesToProcess(job, step, pkgs, acc) ==
    IF pkgs = <<>> THEN [ok |-> TRUE, set |-> acc, pkg |-> "-"]
    ELSE LET pkg == Head(pkgs)
             jc == Evaluate(job.conditional, JobCondVars(pkg))
             sc == Evaluate(step.conditional, StepCondVars(job, pkg))
         IN  IF ~jc.ok THEN [ok |-> FALSE, set |-> acc, pkg |-> pkg]
             ELSE IF ~jc.val THEN PackagesToProcess(job, step, Tail(pkgs), acc)
             ELSE IF ~sc.ok THEN [ok |-> FALSE, set |-> acc, pkg |-> pkg]
             ELSE IF ~sc.val THEN PackagesToProcess(job, step, Tail(pkgs), acc)
             ELSE PackagesToProcess(job, step, Tail(pkgs), acc \cup {pkg})

\* line 164
PerPackageBranch(n_to_process, n_packages, per_package) ==
    n_to_process # n_packages \/ per_package

\* a faulty variant of lines 182 and 261: the dry-run check left out
DryRunNever(args) == FALSE

\* lines 182 and 261
DryRun(args) == args.dry_run

\* what host.spawn and wait_with_output can come to (lines 211-245, 276-297)
Statuses(fails) ==
    IF fails < MaxFails THEN {"ok", "failed", "wait_error", "spawn_error"} ELSE {"ok"}

\* lines 247 and 299: e.is_ok() || continue_on_error
Tolerated(status, continue_on_error) == status = "ok" \/ continue_on_error

\* a faulty variant of lines 110-117: the return of line 116 left out
ProceedsAlways(result_ok, continue_on_error) == TRUE

\* a faulty variant of lines 110-117: the branch of line 112 left out
ProceedsOnSuccessOnly(result_ok, continue_on_error) == result_ok

\* lines 110-117: run_jobs goes on to the next job
Proceeds(result_ok, continue_on_error) == result_ok \/ continue_on_error

Err(job, step, pkg, why) == [kind |-> "err", why |-> why, job |-> job, step |-> step, pkg |-> pkg]

Message(job, step, pkg) == [ev |-> "message", job |-> job, step |-> step, pkg |-> pkg]

\* lines 186-207 and 265-273: the variables handed to make_command
ExecVars(job, step, pkg) ==
    IF pkg # "-" /\ step.per_package
    THEN Chain(<<r_env, r_cfg.variables, job.variables, PackageVariables(pkg),
                 step.variables, r_args.variable>>)
    ELSE Chain(<<r_env, r_cfg.variables, job.variables, step.variables, r_args.variable>>)

\* make_command (lines 310-327): the directory is set, the variables are not used
make_command(step, directory, variables) ==
    [current_dir |-> directory, env_clear |-> FALSE, envs |-> EmptyVars]

\* host.spawn: a Command without env_clear inherits the environment of the host
ProcessEnvironment(cmd, host_vars) ==
    IF cmd.env_clear THEN cmd.envs ELSE Merge(host_vars, cmd.envs)

Spawn(job, step, pkg, cmd, variables, status) ==
    [ev |-> "spawn", job |-> job, step |-> step, pkg |-> pkg, dir |-> cmd.current_dir,
     variables |-> variables, env |-> ProcessEnvironment(cmd, r_host.vars),
     status |-> status]

CommandError(job, step, pkg, fatal) ==
    [ev |-> "command_error", job |-> job, step |-> step, pkg |-> pkg, fatal |-> fatal]

\* what one dispatch appends to the log
Dispatched(job, step, pkg, cmd, variables, status, continue_on_error) ==
    <<Message(job, step, pkg), Spawn(job, step, pkg, cmd, variables, status)>>
      \o (IF status = "ok" THEN <<>>
          ELSE <<CommandError(job, step, pkg, ~continue_on_error)>>)

\* lines 71-80: the environment variables of the host are imported
ImportEnvVars ==
    /\ r_pc = "env"
    /\ r_env' = ImportEnv(r_host.vars, r_cfg.passthrough_env_variables, r_host.windows)
    /\ r_pc' = "job"
    /\ UNCHANGED <<r_host, r_cfg, r_args, r_jobs, r_i, r_s, r_coe, r_todo, r_res, r_outcome,
                   r_result, r_log, r_fails, notR>>

\* lines 97-106: the next job of the list, its continue_on_error evaluated first
StartJob ==
    /\ r_pc = "job"
    /\ IF r_i > Len(r_jobs)
       THEN /\ r_result' = [kind |-> "ok"]
            /\ r_pc' = "done"
            /\ UNCHANGED <<r_coe, r_s, r_res>>
       ELSE LET id == r_jobs[r_i]
                c == Evaluate(r_cfg.jobs[id].continue_on_error, JobCoeVars)
            IN  IF ~c.ok
                THEN /\ r_result' = Err(id, 0, "-", "continue_on_error")
                     /\ r_pc' = "done"
                     /\ UNCHANGED <<r_coe, r_s, r_res>>
                ELSE /\ r_coe' = c.val
                     /\ r_s' = 1
                     /\ r_res' = [kind |-> "none"]
                     /\ r_pc' = "step"
                     /\ UNCHANGED r_result
    /\ UNCHANGED <<r_host, r_cfg, r_args, r_env, r_jobs, r_i, r_todo, r_outcome, r_log, r_fails, notR>>

\* lines 139-164: the next step of the job, and the packages it is for
PlanStep ==
    /\ r_pc = "step"
    /\ LET id == r_jobs[r_i]
           job == r_cfg.jobs[id]
       IN  IF r_s > Len(job.steps)
           THEN /\ r_res' = [kind |-> "ok"]
                /\ r_pc' = "finish"
                /\ UNCHANGED r_todo
           ELSE LET step == job.steps[r_s]
                    plan == PackagesToProcess(job, step, r_args.packages, {})
                IN  IF ~plan.ok
                    THEN /\ r_res' = Err(id, r_s, plan.pkg, "if")
                         /\ r_pc' = "finish"
                         /\ UNCHANGED r_todo
                    ELSE IF PerPackageBranch(Cardinality(plan.set), Len(r_args.packages),
                                             step.per_package)
                    THEN /\ r_todo' = plan.set
                         /\ r_pc' = "pp"
                         /\ UNCHANGED r_res
                    ELSE /\ r_pc' = "ws"
                         /\ UNCHANGED <<r_todo, r_res>>
    /\ UNCHANGED <<r_host, r_cfg, r_args, r_env, r_jobs, r_i, r_s, r_coe, r_outcome, r_result,
                   r_log, r_fails, notR>>

\* lines 165-252: one iteration of the loop over packages_to_process (a HashSet:
\* any package not yet yielded), or its end
DispatchPackage ==
    /\ r_pc = "pp"
    /\ LET id == r_jobs[r_i]
           job == r_cfg.jobs[id]
           step == job.steps[r_s]
       IN  IF r_todo = {}
           THEN /\ r_s' = r_s + 1
                /\ r_pc' = "step"
                /\ UNCHANGED <<r_todo, r_res, r_log, r_fails>>
           ELSE \E pkg \in r_todo :
                  LET c == Evaluate(step.continue_on_error, StepCoeVars(job, step, pkg)) IN
                  IF ~c.ok
                  THEN /\ r_res' = Err(id, r_s, pkg, "continue_on_error")
                       /\ r_pc' = "finish"
                       /\ UNCHANGED <<r_s, r_todo, r_log, r_fails>>
                  ELSE IF DryRun(r_args)
                  THEN /\ r_log' = Append(r_log, Message(id, r_s, pkg))
                       /\ r_todo' = r_todo \ {pkg}
                       /\ UNCHANGED <<r_s, r_pc, r_res, r_fails>>
                  ELSE \E status \in Statuses(r_fails) :
                         /\ r_log' = r_log \o Dispatched(id, r_s, pkg,
                                                      make_command(step, pkg, ExecVars(job, step, pkg)),
                                                      ExecVars(job, step, pkg), status, c.val)
                         /\ r_fails' = r_fails + (IF status = "ok" THEN 0 ELSE 1)
                         /\ UNCHANGED r_s
                         /\ IF Tolerated(status, c.val)
                            THEN /\ r_todo' = r_todo \ {pkg}
                                 /\ UNCHANGED <<r_pc, r_res>>
                            ELSE /\ r_res' = Err(id, r_s, pkg, "command")
                                 /\ r_pc' = "finish"
                                 /\ UNCHANGED r_todo
    /\ UNCHANGED <<r_host, r_cfg, r_args, r_env, r_jobs, r_i, r_coe, r_outcome, r_result, notR>>

\* lines 253-304: the step run once, in the workspace root
DispatchWorkspace ==
    /\ r_pc = "ws"
    /\ LET id == r_jobs[r_i]
           job == r_cfg.jobs[id]
           step == job.steps[r_s]
           c == Evaluate(step.continue_on_error, WorkspaceCoeVars(job))
       IN  IF ~c.ok
           THEN /\ r_res' = Err(id, r_s, "-", "continue_on_error")
                /\ r_pc' = "finish"
                /\ UNCHANGED <<r_s, r_log, r_fails>>
           ELSE IF DryRun(r_args)
           THEN /\ r_log' = Append(r_log, Message(id, r_s, "-"))
                /\ r_s' = r_s + 1
                /\ r_pc' = "step"
                /\ UNCHANGED <<r_res, r_fails>>
           ELSE \E status \in Statuses(r_fails) :
                  /\ r_log' = r_log \o Dispatched(id, r_s, "-",
                       make_command(step, "workspace_root", ExecVars(job, step, "-")),
                       ExecVars(job, step, "-"), status, c.val)
                  /\ r_fails' = r_fails + (IF status = "ok" THEN 0 ELSE 1)
                  /\ IF Tolerated(status, c.val)
                     THEN /\ r_s' = r_s + 1
                          /\ r_pc' = "step"
                          /\ UNCHANGED r_res
                     ELSE /\ r_res' = Err(id, r_s, "-", "command")
                          /\ r_pc' = "finish"
                          /\ UNCHANGED r_s
    /\ UNCHANGED <<r_host, r_cfg, r_args, r_env, r_jobs, r_i, r_coe, r_todo, r_outcome, r_result, notR>>

\* lines 108-117: what run_jobs does with the result of run_job
FinishJob ==
    /\ r_pc = "finish"
    /\ LET id == r_jobs[r_i]
           activity == IF r_res.kind = "ok" THEN "ran"
                       ELSE IF r_coe THEN "failed, but ignored" ELSE "failed"
       IN  /\ r_outcome' = [r_outcome EXCEPT ![id] = [activity |-> activity, result |-> r_res]]
           /\ IF Proceeds(r_res.kind = "ok", r_coe)
              THEN /\ r_i' = r_i + 1
                   /\ r_pc' = "job"
                   /\ UNCHANGED r_result
              ELSE /\ r_result' = r_res
                   /\ r_pc' = "done"
                   /\ UNCHANGED r_i
    /\ UNCHANGED <<r_host, r_cfg, r_args, r_env, r_jobs, r_s, r_coe, r_todo, r_res, r_log, r_fails, notR>>

NextRun ==
    \/ ImportEnvVars
    \/ StartJob
    \/ PlanStep
    \/ DispatchPackage
    \/ DispatchWorkspace
    \/ FinishJob

SpecRun == InitRun /\ [][NextRun]_vars

(***************************************************************************)
(* Claims about the run loop.                                              *)
(***************************************************************************)
JobIndex(id) == CHOOSE i \in 1..Len(r_jobs) : r_jobs[i] = id

EventsOf(id) == {k \in 1..Len(r_log) : r_log[k].job = id}

SpawnsOf(id) == {k \in EventsOf(id) : r_log[k].ev = "spawn"}

JobContinueOnError(id) == Evaluate(r_cfg.jobs[id].continue_on_error, JobCoeVars).val

\* C4: when a job fails and its job-level continue_on_error is false, nothing
\* of a later job is dispatched and the run ends with that job's error; when it
\* is true, the run goes on to the next job of the sorted list.
C4_JobFailureEndsOrContinuesRun ==
    \A i \in 1..Len(r_jobs) :
        LET id == r_jobs[i]
            o == r_outcome[id]
        IN  o.result.kind = "err" =>
              IF JobContinueOnError(id)
              THEN /\ r_i > i
                   /\ r_pc = "done" =>
                        \/ r_result.kind = "ok"
                        \/ JobIndex(r_result.job) > i
                   /\ r_pc = "done" /\ i < Len(r_jobs) =>
                        r_outcome[r_jobs[i + 1]].activity # "none"
              ELSE /\ r_pc = "done"
                   /\ r_result = o.result
                   /\ \A k \in (i + 1)..Len(r_jobs) :
                        /\ EventsOf(r_jobs[k]) = {}
                        /\ r_outcome[r_jobs[k]].activity = "none"

\* a job failed with continue_on_error false while another job was still to run
C4_Witness ==
    /\ r_pc = "done"
    /\ \E i \in 1..Len(r_jobs) :
         /\ i < Len(r_jobs)
         /\ r_outcome[r_jobs[i]].result.kind = "err"
         /\ r_outcome[r_jobs[i]].result.why = "command"
         /\ ~JobContinueOnError(r_jobs[i])

\* C5: no step of a job is dispatched unless every job in its needs has
\* completed successfully in the same run.
C5_NeedsCompletedSuccessfully ==
    \A k \in 1..Len(r_log) :
        r_log[k].ev = "spawn" =>
            \A n \in r_cfg.needs[r_log[k].job] : r_outcome[n].activity = "ran"

\* the packages, or the workspace, step s of job id is run for
ExpectedDispatches(id, s) ==
    LET job == r_cfg.jobs[id]
        plan == PackagesToProcess(job, job.steps[s], r_args.packages, {})
    IN  IF PerPackageBranch(Cardinality(plan.set), Len(r_args.packages),
                            job.steps[s].per_package)
        THEN plan.set ELSE {"-"}

\* run.rs: after a command failure that is not tolerated nothing more of the
\* job is dispatched and run_job returns the error
RunStopsAtFailure ==
    \A k \in 1..Len(r_log) :
        r_log[k].ev = "command_error" /\ r_log[k].fatal =>
            /\ \A m \in (k + 1)..Len(r_log) : r_log[m].job # r_log[k].job
            /\ \/ r_pc = "finish" /\ r_res.kind = "err" /\ r_jobs[r_i] = r_log[k].job
               \/ r_outcome[r_log[k].job].result.kind = "err"

\* run.rs: a tolerated command failure does not end the job, and a job that
\* returned Ok has dispatched every step for everything the step is for
RunToleratesFailure ==
    /\ \A k \in 1..Len(r_log) :
         r_log[k].ev = "command_error" /\ ~r_log[k].fatal =>
             r_outcome[r_log[k].job].result
                 # Err(r_log[k].job, r_log[k].step, r_log[k].pkg, "command")
    /\ \A id \in RunJobIds :
         r_outcome[id].result.kind = "ok" /\ ~r_args.dry_run =>
             \A s \in 1..Len(r_cfg.jobs[id].steps) :
                 {r_log[k].pkg : k \in {x \in SpawnsOf(id) : r_log[x].step = s}}
                     = ExpectedDispatches(id, s)

\* run.rs: a dry run spawns nothing
RunDryRunSpawnsNothing ==
    r_args.dry_run => \A k \in 1..Len(r_log) : r_log[k].ev # "spawn"

(***************************************************************************)
(* modifier_expression.rs: tokenize and the recursive-descent evaluator.   *)
(* An expression is a sequence of characters; a token is a record.         *)
(***************************************************************************)
Whitespace == {" "}

\* the characters an identifier starts with, and those it goes on with
\* (is_alphanumeric accepts letters outside ASCII)
IdentStart == {"n", "s"}

IdentContinue == IdentStart \cup {"e'"}

OperatorToken(ch) ==
    CASE ch = "&" -> "And"
      [] ch = "|" -> "Or"
      [] ch = "!" -> "Not"
      [] ch = "(" -> "LParen"
      [] ch = ")" -> "RParen"

Token(t, name) == [t |-> t, name |-> name]

RECURSIVE IdentLen(_)
\* lines 67-76: how many characters the identifier takes after its first
IdentLen(cs) ==
    IF cs # <<>> /\ Head(cs) \in IdentContinue THEN 1 + IdentLen(Tail(cs)) ELSE 0

RECURSIVE tokenize(_)
\* lines 56-88
tokenize(expr) ==
    IF expr = <<>> THEN [ok |-> TRUE, tokens |-> <<>>]
    ELSE LET ch == Head(expr) IN
         IF ch \in Whitespace THEN tokenize(Tail(expr))
         ELSE IF ch \in {"&", "|", "!", "(", ")"}
         THEN LET rest == tokenize(Tail(expr)) IN
              [ok |-> rest.ok, tokens |-> <<Token(OperatorToken(ch), <<>>)>> \o rest.tokens]
         ELSE IF ch \in IdentStart
         THEN LET n == 1 + IdentLen(Tail(expr))
                  rest == tokenize(SubSeq(expr, n + 1, Len(expr)))
              IN  [ok |-> rest.ok,
                   tokens |-> <<Token("Identifier", SubSeq(expr, 1, n))>> \o rest.tokens]
         ELSE [ok |-> FALSE, tokens |-> <<>>]

Parsed(val, pos) == [ok |-> TRUE, val |-> val, pos |-> pos]

ParseError(pos) == [ok |-> FALSE, val |-> FALSE, pos |-> pos]

\* modifiers.contains(name)
Contains(modifiers, name) == \E i \in 1..Len(modifiers) : modifiers[i] = name

RECURSIVE Parse(_, _, _, _, _)
\* The recursive-descent functions of lines 91-149, one per rule; the two
\* while loops are the rules "or_loop" and "and_loop", which carry the result
\* so far.  Positions count from 1.
Parse(rule, tokens, pos, modifiers, result) ==
    CASE rule = "or" ->
           LET r == Parse("and", tokens, pos, modifiers, FALSE) IN
           IF ~r.ok THEN r ELSE Parse("or_loop", tokens, r.pos, modifiers, r.val)
      [] rule = "or_loop" ->
           IF pos <= Len(tokens) /\ tokens[pos].t = "Or"
           THEN LET right == Parse("and", tokens, pos + 1, modifiers, FALSE) IN
                IF ~right.ok THEN right
                ELSE Parse("or_loop", tokens, right.pos, modifiers, result \/ right.val)
           ELSE Parsed(result, pos)
      [] rule = "and" ->
           LET r == Parse("not", tokens, pos, modifiers, FALSE) IN
           IF ~r.ok THEN r ELSE Parse("and_loop", tokens, r.pos, modifiers, r.val)
      [] rule = "and_loop" ->
           IF pos <= Len(tokens) /\ tokens[pos].t = "And"
           THEN LET right == Parse("not", tokens, pos + 1, modifiers, FALSE) IN
                IF ~right.ok THEN right
                ELSE Parse("and_loop", tokens, right.pos, modifiers, result /\ right.val)
           ELSE Parsed(result, pos)
      [] rule = "not" ->
           IF pos <= Len(tokens) /\ tokens[pos].t = "Not"
           THEN LET r == Parse("primary", tokens, pos + 1, modifiers, FALSE) IN
                IF ~r.ok THEN r ELSE Parsed(~r.val, r.pos)
           ELSE Parse("primary", tokens, pos, modifiers, FALSE)
      [] rule = "primary" ->
           IF pos > Len(tokens) THEN ParseError(pos)
           ELSE IF tokens[pos].t = "Identifier"
           THEN Parsed(Contains(modifiers, tokens[pos].name), pos + 1)
           ELSE IF tokens[pos].t = "LParen"
           THEN LET r == Parse("or", tokens, pos + 1, modifiers, FALSE) IN
                IF ~r.ok THEN r
                ELSE IF r.pos > Len(tokens) \/ tokens[r.pos].t # "RParen"
                THEN ParseError(r.pos)
                ELSE Parsed(r.val, r.pos + 1)
           ELSE ParseError(pos)

\* lines 91-101
parse_or(tokens, pos, modifiers) == Parse("or", tokens, pos, modifiers, FALSE)

\* lines 104-114
parse_and(tokens, pos, modifiers) == Parse("and", tokens, pos, modifiers, FALSE)

\* lines 117-125: one ! and then a primary
parse_not(tokens, pos, modifiers) == Parse("not", tokens, pos, modifiers, FALSE)

\* lines 128-149
parse_primary(tokens, pos, modifiers) == Parse("primary", tokens, pos, modifiers, FALSE)

\* lines 34-44
evaluate(expression, modifiers) ==
    LET tk == tokenize(expression) IN
    IF ~tk.ok THEN [ok |-> FALSE, val |-> FALSE]
    ELSE LET r == parse_or(tk.tokens, 1, modifiers) IN
         IF ~r.ok THEN [ok |-> FALSE, val |-> FALSE]
         ELSE IF r.pos <= Len(tk.tokens) THEN [ok |-> FALSE, val |-> FALSE]
         ELSE [ok |-> TRUE, val |-> r.val]

(***************************************************************************)
(* evaluate called on expressions written from derivations of the grammar  *)
(*   or_expr := and_expr ('|' and_expr)*    and_expr := not_expr ('&' not_expr)* *)
(*   not_expr := '!' not_expr | primary     primary := IDENT | '(' or_expr ')'   *)
(* A derivation is a tree of identifiers, "not", "and" and "or"; it is     *)
(* written with parentheses wherever the grammar needs them.               *)
(***************************************************************************)
\* the largest number of operators of a generated expression
MaxOps == 3

ModifierNames == {<<"n">>, <<"s">>}

Ident(name) == [op |-> "id", name |-> name]
NotOf(x) == [op |-> "not", x |-> x]
AndOf(l, r) == [op |-> "and", l |-> l, r |-> r]
OrOf(l, r) == [op |-> "or", l |-> l, r |-> r]

RECURSIVE Trees(_)
\* the derivations with exactly k operators
Trees(k) ==
    IF k = 0 THEN {Ident(n) : n \in ModifierNames}
    ELSE {NotOf(x) : x \in Trees(k - 1)}
         \cup UNION { UNION { {AndOf(l, r), OrOf(l, r)} : l \in Trees(i), r \in Trees(k - 1 - i) }
                      : i \in 0..(k - 1) }

WellFormed == UNION {Trees(k) : k \in 0..MaxOps}

\* the rule of the grammar a derivation is an instance of: 1 or_expr,
\* 2 and_expr, 3 not_expr, 4 primary
Level(t) ==
    CASE t.op = "or" -> 1
      [] t.op = "and" -> 2
      [] t.op = "not" -> 3
      [] t.op = "id" -> 4

RECURSIVE Written(_, _, _)
\* the characters of a derivation where the grammar asks for an instance of
\* rule `level`; `sp` puts whitespace around the binary operators
Written(t, level, sp) ==
    IF Level(t) < level THEN <<"(">> \o Written(t, 1, sp) \o <<")">>
    ELSE CASE t.op = "id" -> t.name
           [] t.op = "not" -> <<"!">> \o Written(t.x, 3, sp)
           [] t.op = "and" -> Written(t.l, 2, sp) \o (IF sp THEN <<" ", "&", " ">> ELSE <<"&">>)
                                \o Written(t.r, 3, sp)
           [] t.op = "or" -> Written(t.l, 1, sp) \o (IF sp THEN <<" ", "|", " ">> ELSE <<"|">>)
                               \o Written(t.r, 2, sp)

\* the modifier lists a package declares
ModifierLists == {<<>>, <<<<"n">>>>, <<<<"s">>>>, <<<<"n">>, <<"s">>>>}

InitModifiers ==
    /\ m_ast \in WellFormed
    /\ \E sp \in BOOLEAN : m_expr = Written(m_ast, 1, sp)
    /\ m_mods \in ModifierLists
    /\ m_pc = "call"
    /\ m_out = [kind |-> "none"]
    /\ IdleButModifiers

\* lines 34-44: evaluate(expression, modifiers) is called
CallEvaluate ==
    /\ m_pc = "call"
    /\ m_out' = evaluate(m_expr, m_mods)
    /\ m_pc' = "done"
    /\ UNCHANGED <<m_ast, m_expr, m_mods, notM>>

NextModifiers == CallEvaluate

SpecModifiers == InitModifiers /\ [][NextModifiers]_vars

\* the largest number of characters of a generated string
MaxLen == 4

\* an ASCII letter, a letter outside ASCII, whitespace, the operators and
\* parentheses, and a character that is none of these
Chars == {"n", "e'", " ", "&", "|", "!", "(", ")", "?"}

RECURSIVE Strings(_)
\* the strings of exactly k characters
Strings(k) ==
    IF k = 0 THEN {<<>>} ELSE {Append(x, c) : x \in Strings(k - 1), c \in Chars}

\* evaluate is called on a string that was not written from a derivation
InitStrings ==
    /\ m_ast = [op |-> "none"]
    /\ m_expr \in UNION {Strings(k) : k \in 0..MaxLen}
    /\ m_mods \in {<<>>, <<<<"n">>>>}
    /\ m_pc = "call"
    /\ m_out = [kind |-> "none"]
    /\ IdleButModifiers

SpecStrings == InitStrings /\ [][NextModifiers]_vars

(***************************************************************************)
(* jobs.rs: run_job, run_job_sequential, run_job_parallel.  One behaviour  *)
(* calls run_job on the same job, packages and command outcomes twice:     *)
(* with parallel = false, then with parallel = true.                       *)
(***************************************************************************)
None == [some |-> FALSE, expr |-> <<>>]

Some(x) == [some |-> TRUE, expr |-> x]

\* step.rs 6-21: Step::Simple, and Step::Extended with its fields
LegacyStepKinds ==
    { [continue_on_error |-> FALSE, modifiers |-> None],
      [continue_on_error |-> TRUE, modifiers |-> None],
      [continue_on_error |-> FALSE, modifiers |-> Some(<<"n">>)],
      [continue_on_error |-> FALSE, modifiers |-> Some(<<"n", "&">>)] }

\* job_definition.rs validate: a job has at least one step
LegacyStepLists == UNION {[1..n -> LegacyStepKinds] : n \in 1..MaxSteps}

\* package_configs: p2 declares the modifier n, p1 declares none
\* (package_config.and_then(|p| p.modifiers()).unwrap_or(&[]))
PackageModifiers(pkg) == IF pkg = "p2" THEN << <<"n">> >> ELSE <<>>

NonOk(out, steps, pkgs) ==
    Cardinality({c \in (1..Len(steps)) \X Range(pkgs) : out[c[1]][c[2]] # "ok"})

\* host.execute: success, a non-zero exit, or an error starting the command
ExecuteOutcomes(steps, pkgs) ==
    {out \in [1..Len(steps) -> [Range(pkgs) -> {"ok", "fail", "err"}]]
        : NonOk(out, steps, pkgs) <= MaxFails}

InitLegacy ==
    /\ l_ctx \in {[job |-> [steps |-> st], packages |-> ps, dry_run |-> d, keep_going |-> k]
                    : st \in LegacyStepLists, ps \in PackageSelections,
                      d \in BOOLEAN, k \in BOOLEAN}
    /\ l_out \in ExecuteOutcomes(l_ctx.job.steps, l_ctx.packages)
    /\ l_pc = "seq"
    /\ l_seq = [kind |-> "none"]
    /\ l_idx = [pkg \in Range(l_ctx.packages) |-> 1]
    /\ failure_counter = 0
    /\ step_counter = 0
    /\ failures_list = <<>>
    /\ l_calls = <<>>
    /\ l_par = [kind |-> "none"]
    /\ IdleButLegacy

\* a faulty variant of lines 289-308 and 414-434: the modifiers not looked at
ShouldExecuteAlways(step, pkg) == [ok |-> TRUE, val |-> TRUE]

\* lines 289-308 and 414-434: the step's modifiers against the package's
ShouldExecute(step, pkg) ==
    IF step.modifiers.some THEN evaluate(step.modifiers.expr, PackageModifiers(pkg))
    ELSE [ok |-> TRUE, val |-> TRUE]

\* run_step_single (lines 462-498): Err, Ok(true) without executing, or the
\* command executed and Ok(result.success), a start error being Ok(false)
run_step_single(step, pkg, outcome) ==
    LET m == ShouldExecute(step, pkg) IN
    IF ~m.ok THEN [ok |-> FALSE, val |-> FALSE, executed |-> FALSE]
    ELSE IF ~m.val THEN [ok |-> TRUE, val |-> TRUE, executed |-> FALSE]
    ELSE [ok |-> TRUE, val |-> outcome = "ok", executed |-> TRUE]

Call(s, pkg) == [step |-> s, pkg |-> pkg]

\* jobs.rs 301: "Package '..': Failed to evaluate modifiers expression ..."
ModifiersMessage(pkg) == [pkg |-> pkg, step |-> 0, what |-> "modifiers", continuing |-> FALSE]

\* jobs.rs 329-343, 355-366: "Package '..': Step n '..' failed with exit code .." or
\* ".. error: ..", with "(continuing due to continue_on_error)" for a tolerant step
StepMessage(pkg, s, step, outcome) ==
    [pkg |-> pkg, step |-> s, what |-> IF outcome = "fail" THEN "failed" ELSE "error",
     continuing |-> step.continue_on_error]

RECURSIVE SequentialFrom(_, _, _, _, _)
\* lines 401-459 from package p, step s on; acc holds failures,
\* total_steps_executed and the host.execute calls made
SequentialFrom(ctx, out, p, s, acc) ==
    IF p > Len(ctx.packages) THEN acc
    ELSE IF s > Len(ctx.job.steps) THEN SequentialFrom(ctx, out, p + 1, 1, acc)
    ELSE LET pkg == ctx.packages[p]
             step == ctx.job.steps[s]
             m == ShouldExecute(step, pkg)
         IN  IF ~m.ok THEN [acc EXCEPT !.ok = FALSE]
             ELSE IF ~m.val THEN SequentialFrom(ctx, out, p, s + 1, acc)
             ELSE LET counted == [acc EXCEPT !.steps = @ + 1] IN
                  IF ctx.dry_run THEN SequentialFrom(ctx, out, p, s + 1, counted)
                  ELSE LET r == run_step_single(step, pkg, out[s][pkg])
                           ran == [counted EXCEPT
                                     !.calls = IF r.executed THEN Append(@, Call(s, pkg)) ELSE @]
                           failed == [ran EXCEPT !.failures = @ + 1]
                       IN  IF ~r.ok THEN [ran EXCEPT !.ok = FALSE]
                           ELSE IF r.val THEN SequentialFrom(ctx, out, p, s + 1, ran)
                           ELSE IF step.continue_on_error \/ ctx.keep_going
                           THEN SequentialFrom(ctx, out, p, s + 1, failed)
                           ELSE [failed EXCEPT !.ok = FALSE]

run_job_sequential(ctx, out) ==
    SequentialFrom(ctx, out, 1, 1, [ok |-> TRUE, failures |-> 0, steps |-> 0, calls |-> <<>>])

\* run_job lines 249-264: the JobResult, or the error passed on by ?
JobResult(ctx, ok, steps, failures) ==
    IF ok
    THEN [kind |-> "ok", packages |-> Len(ctx.packages), steps |-> steps,
          failures |-> failures, dry_run |-> ctx.dry_run]
    ELSE [kind |-> "err"]

\* run_job with parallel = false
RunJobSequential ==
    /\ l_pc = "seq"
    /\ LET r == run_job_sequential(l_ctx, l_out) IN
       l_seq' = [kind |-> "returned",
                 result |-> JobResult(l_ctx, r.ok, r.steps, r.failures),
                 calls |-> r.calls]
    /\ l_pc' = "par"
    /\ UNCHANGED <<l_ctx, l_out, l_idx, failure_counter, failures_list, step_counter, l_calls, l_par, notL>>

\* a faulty variant of lines 285-375: the steps of a package run as tasks of
\* their own, in any order
ParallelStepUnordered ==
    /\ l_pc = "par"
    /\ \E pkg \in Range(l_ctx.packages) :
         /\ l_idx[pkg] <= Len(l_ctx.job.steps)
         /\ \E s \in 1..Len(l_ctx.job.steps) :
               /\ Call(s, pkg) \notin Range(l_calls)
               /\ l_calls' = Append(l_calls, Call(s, pkg))
         /\ step_counter' = step_counter + 1
         /\ l_idx' = [l_idx EXCEPT ![pkg] = @ + 1]
    /\ UNCHANGED <<l_ctx, l_out, l_pc, l_seq, l_par, failure_counter, failures_list, notL>>

\* a faulty variant of lines 324-372: a failure the step tolerates is reported
\* but not counted
ParallelStepUncounted ==
    /\ l_pc = "par"
    /\ \E pkg \in Range(l_ctx.packages) :
         /\ l_idx[pkg] <= Len(l_ctx.job.steps)
         /\ LET s == l_idx[pkg]
                step == l_ctx.job.steps[s]
                m == ShouldExecute(step, pkg)
                returned == Len(l_ctx.job.steps) + 1
            IN  IF ~m.ok
                THEN /\ failure_counter' = failure_counter + 1
                     /\ failures_list' = Append(failures_list, ModifiersMessage(pkg))
                     /\ l_idx' = [l_idx EXCEPT ![pkg] = returned]
                     /\ UNCHANGED <<step_counter, l_calls>>
                ELSE IF ~m.val
                THEN /\ l_idx' = [l_idx EXCEPT ![pkg] = s + 1]
                     /\ UNCHANGED <<failure_counter, failures_list, step_counter, l_calls>>
                ELSE IF l_ctx.dry_run
                THEN /\ step_counter' = step_counter + 1
                     /\ l_idx' = [l_idx EXCEPT ![pkg] = s + 1]
                     /\ UNCHANGED <<failure_counter, failures_list, l_calls>>
                ELSE /\ step_counter' = step_counter + 1
                     /\ l_calls' = Append(l_calls, Call(s, pkg))
                     /\ failure_counter' =
                          failure_counter + (IF l_out[s][pkg] = "ok" \/ step.continue_on_error THEN 0 ELSE 1)
                     /\ failures_list' =
                          IF l_out[s][pkg] = "ok" THEN failures_list
                          ELSE Append(failures_list, StepMessage(pkg, s, step, l_out[s][pkg]))
                     /\ l_idx' = [l_idx EXCEPT ![pkg] =
                          IF /\ l_out[s][pkg] # "ok"
                             /\ ~step.continue_on_error
                             /\ ~l_ctx.keep_going
                          THEN returned ELSE s + 1]
    /\ UNCHANGED <<l_ctx, l_out, l_pc, l_seq, l_par, notL>>

\* lines 285-375: one iteration of the loop over steps in the closure of one
\* package; the closures of different packages interleave
ParallelStep ==
    /\ l_pc = "par"
    /\ \E pkg \in Range(l_ctx.packages) :
         /\ l_idx[pkg] <= Len(l_ctx.job.steps)
         /\ LET s == l_idx[pkg]
                step == l_ctx.job.steps[s]
                m == ShouldExecute(step, pkg)
                returned == Len(l_ctx.job.steps) + 1
            IN  IF ~m.ok
                THEN /\ failure_counter' = failure_counter + 1
                     /\ failures_list' = Append(failures_list, ModifiersMessage(pkg))
                     /\ l_idx' = [l_idx EXCEPT ![pkg] = returned]
                     /\ UNCHANGED <<step_counter, l_calls>>
                ELSE IF ~m.val
                THEN /\ l_idx' = [l_idx EXCEPT ![pkg] = s + 1]
                     /\ UNCHANGED <<failure_counter, failures_list, step_counter, l_calls>>
                ELSE IF l_ctx.dry_run
                THEN /\ step_counter' = step_counter + 1
                     /\ l_idx' = [l_idx EXCEPT ![pkg] = s + 1]
                     /\ UNCHANGED <<failure_counter, failures_list, l_calls>>
                ELSE /\ step_counter' = step_counter + 1
                     /\ l_calls' = Append(l_calls, Call(s, pkg))
                     /\ failure_counter' =
                          failure_counter + (IF l_out[s][pkg] = "ok" THEN 0 ELSE 1)
                     /\ failures_list' =
                          IF l_out[s][pkg] = "ok" THEN failures_list
                          ELSE Append(failures_list, StepMessage(pkg, s, step, l_out[s][pkg]))
                     /\ l_idx' = [l_idx EXCEPT ![pkg] =
                          IF /\ l_out[s][pkg] # "ok"
                             /\ ~step.continue_on_error
                             /\ ~l_ctx.keep_going
                          THEN returned ELSE s + 1]
    /\ UNCHANGED <<l_ctx, l_out, l_pc, l_seq, l_par, notL>>

\* a faulty variant of lines 285-395: the closures are not waited for
ParallelJoinEarly ==
    /\ l_pc = "par"
    /\ l_par' = JobResult(l_ctx, ~(failure_counter > 0 /\ ~l_ctx.keep_going),
                          step_counter, failure_counter)
    /\ l_pc' = "done"
    /\ UNCHANGED <<l_ctx, l_out, l_seq, l_idx, failure_counter, failures_list, step_counter, l_calls, notL>>

\* lines 377-395 once every closure has returned, and run_job's JobResult
ParallelJoin ==
    /\ l_pc = "par"
    /\ \A pkg \in Range(l_ctx.packages) : l_idx[pkg] > Len(l_ctx.job.steps)
    /\ l_par' = JobResult(l_ctx, ~(failure_counter > 0 /\ ~l_ctx.keep_going),
                          step_counter, failure_counter)
    /\ l_pc' = "done"
    /\ UNCHANGED <<l_ctx, l_out, l_seq, l_idx, failure_counter, failures_list, step_counter, l_calls, notL>>

NextLegacy ==
    \/ RunJobSequential
    \/ ParallelStep
    \/ ParallelJoin

SpecLegacy == InitLegacy /\ [][NextLegacy]_vars

\* step.rs 10-20: steps whose modifiers are written from a derivation of at
\* most one operator (kept with the step as `ast`), and steps without
GatedStepKinds ==
    { [continue_on_error |-> FALSE, modifiers |-> None] }
    \cup { [continue_on_error |-> FALSE,
            modifiers |-> [some |-> TRUE, expr |-> Written(t, 1, FALSE), ast |-> t]]
            : t \in Trees(0) \cup Trees(1) }

\* run_job on a job of two steps, every command succeeding or one failing
InitGating ==
    /\ l_ctx \in {[job |-> [steps |-> st], packages |-> ps, dry_run |-> d, keep_going |-> k]
                    : st \in [1..2 -> GatedStepKinds], ps \in PackageSelections,
                      d \in BOOLEAN, k \in BOOLEAN}
    /\ l_out \in {out \in [1..2 -> [Range(l_ctx.packages) -> {"ok", "fail"}]]
                     : NonOk(out, l_ctx.job.steps, l_ctx.packages) <= 1}
    /\ l_pc = "seq"
    /\ l_seq = [kind |-> "none"]
    /\ l_idx = [pkg \in Range(l_ctx.packages) |-> 1]
    /\ failure_counter = 0
    /\ step_counter = 0
    /\ failures_list = <<>>
    /\ l_calls = <<>>
    /\ l_par = [kind |-> "none"]
    /\ IdleButLegacy

SpecGating == InitGating /\ [][NextLegacy]_vars

\* both executors of the repository: run_jobs for one package and for two,
\* run_job of jobs.rs for every selection
InitExec ==
    \/ InitRun /\ r_args.packages \in {<<"p1">>, <<"p1", "p2">>}
    \/ InitLegacy

NextExec == NextRun \/ NextLegacy

SpecExec == InitExec /\ [][NextExec]_vars

(***************************************************************************)
(* Claims about the executors.                                             *)
(***************************************************************************)
LegacySteps == l_ctx.job.steps

\* the call's command failed and its step does not continue on error
FatalCall(c) == l_out[c.step][c.pkg] # "ok" /\ ~LegacySteps[c.step].continue_on_error

\* no step after the failed one is executed once a fatal failure has happened
NoLaterStepAfterFatal(calls) ==
    \A k \in 1..Len(calls) :
        FatalCall(calls[k]) =>
            \A m \in (k + 1)..Len(calls) : calls[m].step <= calls[k].step

\* run_job returned an error, or a JobResult the summary prints as FAIL
EndsFailed(result) == result.kind = "err" \/ result.failures > 0

HasFatalCall(calls) == \E k \in 1..Len(calls) : FatalCall(calls[k])

LegacyStopsAtFailure ==
    /\ l_seq.kind = "returned" =>
         /\ NoLaterStepAfterFatal(l_seq.calls)
         /\ HasFatalCall(l_seq.calls) => EndsFailed(l_seq.result)
    /\ NoLaterStepAfterFatal(l_calls)
    /\ l_pc = "done" /\ HasFatalCall(l_calls) => EndsFailed(l_par)

\* C2: when a step's command fails and the step's continue_on_error is false,
\* no later step of the job is dispatched for any package and the job ends
\* failed, in every execution mode and whatever the keep-going setting.
C2_FailureStopsJob ==
    /\ r_pc # "idle" => RunStopsAtFailure
    /\ l_pc # "idle" => LegacyStopsAtFailure

\* the step and package pairs the job is to execute
LegacyExpected ==
    {c \in {Call(x, pkg) : x \in 1..Len(LegacySteps), pkg \in Range(l_ctx.packages)}
        : ShouldExecute(LegacySteps[c.step], c.pkg).val}

\* every failure the run can meet is a failed command of a step that
\* continues on error, and at least one is met
OnlyToleratedFailures ==
    /\ ~l_ctx.dry_run
    /\ \A x \in 1..Len(LegacySteps) : \A pkg \in Range(l_ctx.packages) :
         ShouldExecute(LegacySteps[x], pkg).ok
    /\ \A c \in LegacyExpected : l_out[c.step][c.pkg] # "ok" => LegacySteps[c.step].continue_on_error
    /\ \E c \in LegacyExpected : l_out[c.step][c.pkg] # "ok"

\* the failures are counted, everything else is still executed, and the job
\* is not ended as failed
ToleratedBy(result, calls) ==
    /\ result.kind = "ok"
    /\ result.failures = Cardinality({c \in LegacyExpected : l_out[c.step][c.pkg] # "ok"})
    /\ Range(calls) = LegacyExpected

LegacyToleratesFailure ==
    OnlyToleratedFailures =>
        /\ l_seq.kind = "returned" => ToleratedBy(l_seq.result, l_seq.calls)
        /\ l_pc = "done" => ToleratedBy(l_par, l_calls)

\* C3: when a step's command fails and the step's continue_on_error is true,
\* the failure is recorded, the remaining packages and the later steps are
\* still dispatched, and the job is not ended as failed by that failure.
C3_ToleratedFailureContinues ==
    /\ r_pc # "idle" => RunToleratesFailure
    /\ l_pc # "idle" => LegacyToleratesFailure

\* C6: in a dry run the process-execution collaborator is never invoked, in
\* sequential and in parallel execution.
C6_DryRunExecutesNothing ==
    /\ r_pc # "idle" => RunDryRunSpawnsNothing
    /\ l_pc # "idle" /\ l_ctx.dry_run =>
         /\ l_calls = <<>>
         /\ l_seq.kind = "returned" => l_seq.calls = <<>>

\* a dry run of run_jobs came to its end having announced a step
C6_Witness ==
    /\ r_pc = "done"
    /\ r_args.dry_run
    /\ r_result.kind = "ok"
    /\ \E k \in 1..Len(r_log) : r_log[k].ev = "message"

\* C7: for the same job, packages, flags and command outcomes, parallel and
\* sequential execution return the same outcome and the same tallies.
C7_ParallelEqualsSequential ==
    l_pc = "done" => l_par = l_seq.result

(***************************************************************************)
(* Claims about what run_job dispatches.                                   *)
(***************************************************************************)
\* the job's condition is the literal false, or it evaluates to false for
\* each of the selected packages
JobConditionFalse(id) ==
    LET job == r_cfg.jobs[id] IN
    \/ job.conditional = Bool(FALSE)
    \/ /\ r_args.packages # <<>>
       /\ \A pkg \in Range(r_args.packages) :
            LET jc == Evaluate(job.conditional, JobCondVars(pkg)) IN jc.ok /\ ~jc.val

\* C11: if a job's condition is false for every selected package, none of
\* its steps is dispatched, no failure is recorded for it and the run moves on
\* to the next job, for every package selection, the empty one included.
C11_FalseJobConditionSkipsJob ==
    \A id \in Range(r_jobs) :
        JobConditionFalse(id) =>
            /\ EventsOf(id) = {}
            /\ r_outcome[id].result.kind # "err"
            /\ r_pc = "finish" /\ r_jobs[r_i] = id => r_res.kind = "ok"
            /\ r_result.kind = "err" => r_result.job # id

\* run.rs with at least one package selected: a job whose condition is false
\* for every package dispatches nothing and completes without a failure
RunSkipsJobOfFalseCondition ==
    \A id \in Range(r_jobs) :
        JobConditionFalse(id) /\ r_args.packages # <<>> =>
            /\ EventsOf(id) = {}
            /\ r_outcome[id].result.kind # "err"
            /\ r_pc = "finish" /\ r_jobs[r_i] = id => r_res.kind = "ok"

\* the announcements and the spawns of step s of job id
MessagesOf(id, s) == {k \in EventsOf(id) : r_log[k].ev = "message" /\ r_log[k].step = s}

StepSpawnsOf(id, s) == {k \in SpawnsOf(id) : r_log[k].step = s}

\* the selected packages neither the job's nor the step's condition excludes
EffectiveSubset(id, s) ==
    PackagesToProcess(r_cfg.jobs[id], r_cfg.jobs[id].steps[s], r_args.packages, {}).set

\* the step was dispatched once for each package of sub, in the package's root
OncePerPackage(id, s, sub) ==
    /\ {r_log[k].pkg : k \in MessagesOf(id, s)} = sub
    /\ Cardinality(MessagesOf(id, s)) = Cardinality(sub)
    /\ \A k \in StepSpawnsOf(id, s) : r_log[k].dir = r_log[k].pkg

\* the step was dispatched exactly once, in the workspace root
OnceInWorkspace(id, s) ==
    /\ Cardinality(MessagesOf(id, s)) = 1
    /\ \A k \in MessagesOf(id, s) : r_log[k].pkg = "-"
    /\ \A k \in StepSpawnsOf(id, s) : r_log[k].dir = "workspace_root"

\* C12: a step that declares per_package, or whose effective package subset
\* excludes some but not all of the selected packages, is dispatched once for
\* each package of the subset; a step that is not per_package and for which no
\* selected package is excluded is dispatched exactly once, in the workspace root.
C12_DispatchFollowsSubset ==
    \A id \in Range(r_jobs) :
        r_outcome[id].result.kind = "ok" =>
            \A s \in 1..Len(r_cfg.jobs[id].steps) :
                LET step == r_cfg.jobs[id].steps[s]
                    sel == Range(r_args.packages)
                    sub == EffectiveSubset(id, s)
                IN  /\ step.per_package \/ (sub # sel /\ sub # {}) =>
                          OncePerPackage(id, s, sub)
                    /\ ~step.per_package /\ sub = sel => OnceInWorkspace(id, s)

\* run.rs when no package is selected twice: the dispatch the subset decides
RunDispatchFollowsSubset ==
    NoDuplicates(r_args.packages) => C12_DispatchFollowsSubset

\* C13: a per_package step is dispatched once for each selected package, in
\* that package's root; a step that is not per_package is dispatched once, in
\* the workspace root.  (Read for the packages the conditions do not exclude,
\* and for steps that apply to at least one of them.)
C13_PerPackageDecidesDispatch ==
    \A id \in Range(r_jobs) :
        r_outcome[id].result.kind = "ok" =>
            \A s \in 1..Len(r_cfg.jobs[id].steps) :
                LET step == r_cfg.jobs[id].steps[s]
                    sub == EffectiveSubset(id, s)
                IN  sub # {} =>
                        IF step.per_package
                        THEN OncePerPackage(id, s, sub)
                        ELSE OnceInWorkspace(id, s)

(***************************************************************************)
(* The run loop over inputs that differ in their variables: one job of one *)
(* step and one package, each source of variables defining X or not, and   *)
(* hosts and allow-lists of every kind.                                    *)
(***************************************************************************)
\* a source of variables that defines X as v, or defines nothing
Layer(defined, v) == IF defined THEN [k \in {"X"} |-> v] ELSE EmptyVars

\* X == t, or the default of the field
Guard(on, t, default) == IF on THEN Eq("X", t) ELSE Bool(default)

\* the values the sources give to X: environment, workspace, job, step,
\* package p1, command line
LayerValues == {"e", "w", "j", "s", "p1", "c"}

VarsConfig(job, passthrough, variables) ==
    [needs |-> [j \in RunJobIds |-> {}],
     jobs |-> [j \in RunJobIds |->
                 IF j = "a" THEN job
                 ELSE [steps |-> <<SimpleStep>>, conditional |-> Bool(TRUE),
                       continue_on_error |-> Bool(FALSE), variables |-> EmptyVars]],
     passthrough_env_variables |-> passthrough,
     variables |-> variables]

\* inputs that differ in the sources that define X and in the expressions that read it
LayerInputs ==
    { [host |-> [vars |-> Layer(he, "e"), windows |-> FALSE],
       cfg |-> VarsConfig(
                 [steps |-> <<[per_package |-> pp,
                               conditional |-> Guard(g[3], t, TRUE),
                               continue_on_error |-> Guard(g[4], t, FALSE),
                               variables |-> Layer(d[3], "s")]>>,
                  conditional |-> Guard(g[1], t, TRUE),
                  continue_on_error |-> Guard(g[2], t, FALSE),
                  variables |-> Layer(d[2], "j")],
                 {"X"}, Layer(d[1], "w")),
       args |-> [dry_run |-> FALSE, variable |-> Layer(d[4], "c"), packages |-> <<pkg>>]]
      : he \in BOOLEAN, pp \in BOOLEAN, pkg \in {"p0", "p1"}, t \in LayerValues,
        d \in [1..4 -> BOOLEAN], g \in [1..4 -> BOOLEAN] }

HostVarsChoices ==
    { EmptyVars, [k \in {"X"} |-> "e"], [k \in {"x"} |-> "e"],
      [k \in {"X", "H"} |-> IF k = "X" THEN "e" ELSE "h"] }

\* inputs that differ in the host's variables, the allow-list and the platform
ImportInputs ==
    { [host |-> [vars |-> hv, windows |-> w],
       cfg |-> VarsConfig(
                 [steps |-> <<SimpleStep>>, conditional |-> Eq("X", "e"),
                  continue_on_error |-> Bool(FALSE), variables |-> EmptyVars],
                 pt, EmptyVars),
       args |-> [dry_run |-> FALSE, variable |-> EmptyVars, packages |-> <<"p0">>]]
      : hv \in HostVarsChoices, w \in BOOLEAN, pt \in {{}, {"X"}, {"H"}} }

InitVars ==
    /\ \E in \in LayerInputs \cup ImportInputs :
         /\ r_host = in.host
         /\ r_cfg = in.cfg
         /\ r_args = in.args
    /\ r_env = EmptyVars
    /\ r_jobs = <<"a">>
    /\ r_pc = "env"
    /\ r_i = 1
    /\ r_s = 0
    /\ r_coe = FALSE
    /\ r_todo = {}
    /\ r_res = [kind |-> "none"]
    /\ r_outcome = [j \in RunJobIds |-> [activity |-> "none", result |-> [kind |-> "none"]]]
    /\ r_result = [kind |-> "none"]
    /\ r_log = <<>>
    /\ r_fails = 0
    /\ IdleButRun

SpecVars == InitVars /\ [][NextRun]_vars

(***************************************************************************)
(* Claims about variables.  The reference: of the sources that define a    *)
(* name, the last one in the stated order gives its value.                 *)
(***************************************************************************)
Defining(layers, n) == {i \in 1..Len(layers) : n \in DOMAIN layers[i]}

Latest(layers, n) ==
    layers[CHOOSE i \in Defining(layers, n) : \A j \in Defining(layers, n) : j <= i][n]

\* what the stated order makes of an expression: "true", "false" or "error"
Reference(x, layers) ==
    IF x.e = "bool" THEN (IF x.b THEN "true" ELSE "false")
    ELSE IF x.e = "eq" /\ Defining(layers, x.var) # {}
    THEN (IF Latest(layers, x.var) = x.val THEN "true" ELSE "false")
    ELSE "error"

VarNames == {"X", "x", "H"}

\* the flattened variables the stated order gives
Flattened(layers) ==
    [n \in {x \in VarNames : Defining(layers, x) # {}} |-> Latest(layers, n)]

\* C14: for step execution the layers are applied in the order environment,
\* workspace, job, step, package (per_package steps only), command line: of
\* the layers that define a name the latest one gives the value used.
C14_ExecutionLayerOrder ==
    \A k \in 1..Len(r_log) :
        r_log[k].ev = "spawn" =>
            LET job == r_cfg.jobs[r_log[k].job]
                step == job.steps[r_log[k].step]
                package == IF step.per_package
                           THEN <<PackageVariables(r_log[k].pkg)>> ELSE <<>>
            IN  r_log[k].variables =
                    Flattened(<<r_env, r_cfg.variables, job.variables, step.variables>>
                              \o package \o <<r_args.variable>>)

\* C15: the spawned process receives the flattened step-execution variables
\* as its environment; of the host's variables only the allow-listed ones,
\* which are part of them, are visible to it.
C15_ProcessEnvironmentIsTheVariables ==
    \A k \in 1..Len(r_log) :
        r_log[k].ev = "spawn" => r_log[k].env = r_log[k].variables

\* the names of the host the allow-list names, by the platform's comparison
Listed(k) ==
    \E v \in r_cfg.passthrough_env_variables :
        k = v \/ (r_host.windows /\ AsciiFold(k) = AsciiFold(v))

\* C16: without an allow-list every environment variable of the process is
\* imported into the environment layer; with one, exactly the listed ones.
C16_ImportFollowsAllowList ==
    r_pc \notin {"idle", "env"} =>
        r_env = IF r_cfg.passthrough_env_variables = {}
                THEN r_host.vars
                ELSE [k \in {x \in DOMAIN r_host.vars : Listed(x)} |-> r_host.vars[k]]

\* run.rs with an allow-list configured: exactly the listed variables are imported
RunImportsListed ==
    r_pc \notin {"idle", "env"} /\ r_cfg.passthrough_env_variables # {} =>
        r_env = [k \in {x \in DOMAIN r_host.vars : Listed(x)} |-> r_host.vars[k]]

\* the job run_jobs is at, and the step run_job is at
CurrentJob == r_cfg.jobs[r_jobs[r_i]]
CurrentStep == CurrentJob.steps[r_s]

\* run_job has decided what the step is for and has dispatched nothing of it yet
Planned ==
    /\ r_pc \in {"pp", "ws"}
    /\ \A k \in 1..Len(r_log) : ~(r_log[k].job = r_jobs[r_i] /\ r_log[k].step = r_s)

CommandLine == <<r_args.variable>>

\* C17: in every evaluation context (job condition, job continue-on-error,
\* step condition, step continue-on-error) a variable given on the command
\* line overrides a variable of the same name from every other source.
C17_CommandLineOverrides ==
    (r_pc \notin {"idle", "env"} /\ "X" \in DOMAIN r_args.variable) =>
        /\ r_result.kind = "err" => r_result.why = "command"
        /\ r_res.kind = "err" => r_res.why = "command"
        /\ r_pc \in {"step", "pp", "ws", "finish"} =>
              r_coe = (Reference(CurrentJob.continue_on_error, CommandLine) = "true")
        /\ Planned =>
              LET both == /\ Reference(CurrentJob.conditional, CommandLine) = "true"
                          /\ Reference(CurrentStep.conditional, CommandLine) = "true"
              IN  IF r_pc = "ws" THEN both
                  ELSE r_todo = (IF both THEN Range(r_args.packages) ELSE {})
        /\ \A k \in 1..Len(r_log) :
              r_log[k].ev = "command_error" =>
                  r_log[k].fatal =
                      (Reference(r_cfg.jobs[r_log[k].job].steps[r_log[k].step].continue_on_error,
                                 CommandLine) # "true")

\* X is given on the command line and by every other source, all four
\* expressions read it, and a failed command was tolerated
C17_Witness ==
    /\ r_pc = "finish"
    /\ r_args.variable = [k \in {"X"} |-> "c"]
    /\ r_env = [k \in {"X"} |-> "e"]
    /\ r_cfg.variables = [k \in {"X"} |-> "w"]
    /\ CurrentJob.variables = [k \in {"X"} |-> "j"]
    /\ r_args.packages = <<"p1">>
    /\ CurrentJob.conditional = Eq("X", "c")
    /\ CurrentJob.continue_on_error = Eq("X", "c")
    /\ CurrentJob.steps[1].conditional = Eq("X", "c")
    /\ CurrentJob.steps[1].continue_on_error = Eq("X", "c")
    /\ CurrentJob.steps[1].per_package
    /\ r_coe
    /\ r_res.kind = "ok"
    /\ \E k \in 1..Len(r_log) : r_log[k].ev = "command_error" /\ ~r_log[k].fatal

JobCondExpected(pkg) ==
    Reference(CurrentJob.conditional,
              <<r_env, r_cfg.variables, PackageVariables(pkg), r_args.variable>>)

StepCondExpected(pkg) ==
    Reference(CurrentStep.conditional,
              <<r_env, r_cfg.variables, CurrentJob.variables, PackageVariables(pkg),
                r_args.variable>>)

\* C18: a step condition is evaluated against the layers environment,
\* workspace, job, package, command line, a later layer overriding an earlier
\* one for the same name; the variables of the step are not visible to it.
C18_StepConditionLayers ==
    r_pc \in {"pp", "ws", "finish"} =>
        \A pkg \in Range(r_args.packages) :
            JobCondExpected(pkg) = "true" =>
                /\ r_pc = "ws" => StepCondExpected(pkg) = "true"
                /\ (r_pc = "pp" /\ Planned) =>
                      /\ StepCondExpected(pkg) # "error"
                      /\ pkg \in r_todo <=> StepCondExpected(pkg) = "true"
                /\ (r_pc = "finish" /\ r_res = Err(r_jobs[r_i], r_s, pkg, "if")) =>
                      StepCondExpected(pkg) = "error"

\* job, step and package define X; the condition of the step holds for the
\* package's value, and the step is planned for the package
C18_Witness ==
    /\ Planned
    /\ r_args.packages = <<"p1">>
    /\ r_todo = {"p1"}
    /\ "X" \notin DOMAIN r_args.variable
    /\ CurrentJob.variables = [k \in {"X"} |-> "j"]
    /\ CurrentStep.variables = [k \in {"X"} |-> "s"]
    /\ CurrentStep.conditional = Eq("X", "p1")
    /\ CurrentJob.conditional = Bool(TRUE)

\* a reachable case: only the step defines X, and its condition could not be evaluated
StepVariablesUnseen ==
    /\ r_pc = "finish"
    /\ r_res.kind = "err" /\ r_res.why = "if"
    /\ CurrentJob.conditional = Bool(TRUE)
    /\ CurrentJob.steps[1].conditional = Eq("X", "s")
    /\ CurrentJob.steps[1].variables = [k \in {"X"} |-> "s"]

JobCoeExpected(id) ==
    Reference(r_cfg.jobs[id].continue_on_error, <<r_env, r_cfg.variables, r_args.variable>>)

\* C19: the continue_on_error of a job is evaluated against the environment,
\* workspace and command-line variables only: the variables of a package
\* and of the job never change its value.
C19_JobContinueOnErrorLayers ==
    /\ r_pc \in {"step", "pp", "ws", "finish"} =>
          /\ JobCoeExpected(r_jobs[r_i]) # "error"
          /\ r_coe = (JobCoeExpected(r_jobs[r_i]) = "true")
    /\ (r_pc = "done" /\ r_result.kind = "err" /\ r_result.why = "continue_on_error"
          /\ r_result.step = 0) =>
          JobCoeExpected(r_result.job) = "error"

\* the job and the package define X, the job's value is the one its
\* continue_on_error compares with, and the workspace's value decided
C19_Witness ==
    /\ r_pc = "finish"
    /\ ~r_coe
    /\ r_args.packages = <<"p1">>
    /\ CurrentJob.variables = [k \in {"X"} |-> "j"]
    /\ CurrentJob.continue_on_error = Eq("X", "j")
    /\ r_cfg.variables = [k \in {"X"} |-> "w"]
    /\ "X" \notin DOMAIN r_args.variable

(***************************************************************************)
(* Claims about the modifier expressions.                                  *)
(***************************************************************************)
RECURSIVE Value(_, _)
\* the boolean value of a derivation: an identifier is true iff it is one of
\* the modifiers
Value(t, mods) ==
    CASE t.op = "id" -> t.name \in Range(mods)
      [] t.op = "not" -> ~Value(t.x, mods)
      [] t.op = "and" -> Value(t.l, mods) /\ Value(t.r, mods)
      [] t.op = "or" -> Value(t.l, mods) \/ Value(t.r, mods)

RECURSIVE RepeatedNegation(_)
\* some "not" of the derivation is applied to a "not": the expression has !!
RepeatedNegation(t) ==
    CASE t.op = "id" -> FALSE
      [] t.op = "not" -> t.x.op = "not" \/ RepeatedNegation(t.x)
      [] t.op \in {"and", "or"} -> RepeatedNegation(t.l) \/ RepeatedNegation(t.r)

\* C20: for every well-formed modifier expression and every modifier set,
\* evaluate returns the boolean value of the expression, where an identifier
\* is true iff it is a member of the set, ! binds tightest, then &, then |,
\* and parentheses override.
C20_EvaluateReturnsValue ==
    m_pc = "done" => m_out = [ok |-> TRUE, val |-> Value(m_ast, m_mods)]

\* modifier_expression.rs on the expressions without !!: the value, with the
\* stated precedence
EvaluateWithoutRepeatedNegation ==
    (m_pc = "done" /\ ~RepeatedNegation(m_ast)) =>
        m_out = [ok |-> TRUE, val |-> Value(m_ast, m_mods)]

\* modifier_expression.rs on the expressions with !!: an error
EvaluateRejectsRepeatedNegation ==
    (m_pc = "done" /\ RepeatedNegation(m_ast)) => ~m_out.ok

RECURSIVE HasNegation(_)
\* the derivation uses not_expr := '!' not_expr somewhere
HasNegation(t) ==
    CASE t.op = "id" -> FALSE
      [] t.op = "not" -> TRUE
      [] t.op \in {"and", "or"} -> HasNegation(t.l) \/ HasNegation(t.r)

\* C21: evaluate accepts every string derivable from the grammar, repeated
\* negation (not_expr := '!' not_expr) and the negation of a parenthesised
\* group included, and returns its boolean value, not an error.
C21_AcceptsEveryNegation ==
    (m_pc = "done" /\ HasNegation(m_ast)) =>
        /\ m_out.ok
        /\ m_out.val = Value(m_ast, m_mods)

\* modifier_expression.rs on the negation of a parenthesised group: accepted,
\* with its value
EvaluateAcceptsNegatedGroup ==
    (m_pc = "done" /\ m_ast.op = "not" /\ m_ast.x.op \in {"and", "or"}
       /\ ~RepeatedNegation(m_ast)) =>
        m_out = [ok |-> TRUE, val |-> ~Value(m_ast.x, m_mods)]

\* the characters of an identifier by the stated alphabet [A-Za-z0-9_-]
AlphabetIdent == {"n", "s"}

RECURSIVE Lexed(_, _)
\* the tokens of a string by the stated alphabet: an identifier is a longest
\* run of identifier characters, whitespace separates and is dropped, and a
\* character outside the alphabet is the token "bad"
Lexed(cs, in_ident) ==
    IF cs = <<>> THEN <<>>
    ELSE LET h == Head(cs) IN
         IF h \in AlphabetIdent
         THEN (IF in_ident THEN <<>> ELSE <<"id">>) \o Lexed(Tail(cs), TRUE)
         ELSE IF h \in Whitespace THEN Lexed(Tail(cs), FALSE)
         ELSE IF h \in {"&", "|", "!", "(", ")"} THEN <<h>> \o Lexed(Tail(cs), FALSE)
         ELSE <<"bad">> \o Lexed(Tail(cs), FALSE)

RECURSIVE Derives(_, _)
\* the rule of the grammar derives the tokens
Derives(rule, ts) ==
    CASE rule = "or" ->
           \/ Derives("and", ts)
           \/ \E i \in 1..Len(ts) :
                 /\ ts[i] = "|"
                 /\ Derives("or", SubSeq(ts, 1, i - 1))
                 /\ Derives("and", SubSeq(ts, i + 1, Len(ts)))
      [] rule = "and" ->
           \/ Derives("not", ts)
           \/ \E i \in 1..Len(ts) :
                 /\ ts[i] = "&"
                 /\ Derives("and", SubSeq(ts, 1, i - 1))
                 /\ Derives("not", SubSeq(ts, i + 1, Len(ts)))
      [] rule = "not" ->
           \/ ts # <<>> /\ ts[1] = "!" /\ Derives("not", Tail(ts))
           \/ Derives("primary", ts)
      [] rule = "primary" ->
           \/ ts = <<"id">>
           \/ /\ Len(ts) >= 3
              /\ ts[1] = "(" /\ ts[Len(ts)] = ")"
              /\ Derives("or", SubSeq(ts, 2, Len(ts) - 1))

Malformed(expr) == ~Derives("or", Lexed(expr, FALSE))

\* what is written from a derivation is derived by the grammar
WrittenIsDerived == m_pc # "idle" /\ m_ast.op # "none" => ~Malformed(m_expr)

\* C22: evaluate returns a parse error, never a boolean, for every malformed
\* modifier expression: empty or whitespace-only input, an unmatched
\* parenthesis, trailing tokens after a complete expression, a leading or
\* dangling binary operator, and any character outside the token alphabet.
C22_MalformedIsAnError ==
    (m_pc = "done" /\ Malformed(m_expr)) => ~m_out.ok

\* modifier_expression.rs on the malformed strings without a letter outside
\* ASCII: an error
MalformedAsciiIsAnError ==
    (m_pc = "done" /\ Malformed(m_expr) /\ "e'" \notin Range(m_expr)) => ~m_out.ok

\* modifier_expression.rs accepts nothing of ASCII the grammar does not derive,
\* and of what the grammar derives it rejects only repeated negation
AcceptedAsciiIsDerived ==
    (m_pc = "done" /\ "e'" \notin Range(m_expr)) =>
        (m_out.ok <=> /\ ~Malformed(m_expr)
                      /\ \A i \in 1..(Len(Lexed(m_expr, FALSE)) - 1) :
                            ~(Lexed(m_expr, FALSE)[i] = "!" /\ Lexed(m_expr, FALSE)[i + 1] = "!"))

(***************************************************************************)
(* Claims about the modifiers of a step (jobs.rs).                         *)
(***************************************************************************)
\* the step is for the package: it has no modifiers, or its expression has
\* the value true for the modifiers the package declares
Applies(step, pkg) ==
    ~step.modifiers.some \/ Value(step.modifiers.ast, PackageModifiers(pkg))

Applicable ==
    {c \in (1..Len(l_ctx.job.steps)) \X Range(l_ctx.packages) :
        Applies(l_ctx.job.steps[c[1]], c[2])}

CallsOf(calls) == {<<calls[k].step, calls[k].pkg>> : k \in 1..Len(calls)}

\* no command fails, or the job keeps going after a failure
RunsToItsEnd ==
    \/ l_ctx.keep_going
    \/ \A c \in (1..Len(l_ctx.job.steps)) \X Range(l_ctx.packages) : l_out[c[1]][c[2]] = "ok"

\* what run_job returns when every applicable step was run
GatedResult ==
    [kind |-> "ok", packages |-> Len(l_ctx.packages),
     steps |-> Cardinality(Applicable),
     failures |-> IF l_ctx.dry_run THEN 0
                  ELSE Cardinality({c \in Applicable : l_out[c[1]][c[2]] # "ok"}),
     dry_run |-> l_ctx.dry_run]

\* C23: a step with a modifiers expression is executed for a package iff the
\* expression evaluates to true against the modifiers the package declares
\* (none declared is the empty set); a step without modifiers runs for every
\* package; a step skipped by its modifiers counts neither as a step executed
\* nor as a failure.
C23_ModifiersGateSteps ==
    /\ l_seq.kind = "returned" =>
          /\ CallsOf(l_seq.calls) \subseteq Applicable
          /\ RunsToItsEnd =>
                /\ l_seq.result = GatedResult
                /\ CallsOf(l_seq.calls) = (IF l_ctx.dry_run THEN {} ELSE Applicable)
    /\ l_pc \notin {"idle", "seq"} => CallsOf(l_calls) \subseteq Applicable
    /\ (l_pc = "done" /\ RunsToItsEnd) =>
          /\ l_par = GatedResult
          /\ CallsOf(l_calls) = (IF l_ctx.dry_run THEN {} ELSE Applicable)

\* both packages were selected, the first step is for the package that declares n
\* only, the second for the other only, and its command failed for that one
C23_Witness ==
    /\ l_pc = "done"
    /\ l_ctx.packages = <<"p1", "p2">>
    /\ ~l_ctx.dry_run /\ l_ctx.keep_going
    /\ l_ctx.job.steps[1].modifiers.some /\ l_ctx.job.steps[1].modifiers.expr = <<"n">>
    /\ l_ctx.job.steps[2].modifiers.some /\ l_ctx.job.steps[2].modifiers.expr = <<"!", "n">>
    /\ l_out[2]["p1"] = "fail"
    /\ CallsOf(l_calls) = {<<1, "p2">>, <<2, "p1">>}
    /\ l_par.steps = 2 /\ l_par.failures = 1
    /\ l_seq.result = l_par

\* some step of the job has a modifiers expression the grammar does not derive
MalformedModifiers ==
    \E s \in 1..Len(l_ctx.job.steps) :
        /\ l_ctx.job.steps[s].modifiers.some
        /\ Malformed(l_ctx.job.steps[s].modifiers.expr)

\* C24: a configuration with a syntactically malformed expression (in an if,
\* continue_on_error or modifiers field) is rejected when the job graph is
\* loaded, before any step of any job is dispatched.
C24_MalformedRejectedAtLoad ==
    (l_pc # "idle" /\ MalformedModifiers) =>
        /\ l_calls = <<>>
        /\ l_seq.kind = "returned" => l_seq.calls = <<>>

\* jobs.rs: the malformed modifiers of a step end the sequential job with an
\* error once the step is reached for a package
MalformedModifiersEndSequentialJob ==
    (l_seq.kind = "returned" /\ l_ctx.packages # <<>> /\ MalformedModifiers
       /\ (l_ctx.dry_run \/ l_ctx.keep_going)) =>
        l_seq.result.kind = "err"

(***************************************************************************)
(* Claims about the order of dispatches, over the runs of both executors   *)
(* that execute commands for two packages (run_jobs: of two jobs, the      *)
(* condition of neither excluding a package).                              *)
(***************************************************************************)
InitOrder ==
    /\ InitExec
    /\ r_pc # "idle" =>
          /\ ~r_args.dry_run
          /\ r_args.packages = <<"p1", "p2">>
          /\ Len(r_jobs) = 2
          /\ r_cfg.jobs["a"].conditional = Bool(TRUE)
    /\ l_pc # "idle" => ~l_ctx.dry_run /\ Len(l_ctx.packages) = 2

SpecOrder == InitOrder /\ [][NextExec]_vars

\* C25: jobs run one at a time in the sorted order: no step of a job is
\* dispatched until every dispatch of every earlier job in the order has
\* finished, also when packages are processed in parallel.
C25_JobsRunOneAtATime ==
    /\ r_pc \notin {"idle", "env"} =>
          /\ \A k \in 1..Len(r_log) : JobIndex(r_log[k].job) <= r_i
          /\ \A k1, k2 \in 1..Len(r_log) :
                k1 < k2 => JobIndex(r_log[k1].job) <= JobIndex(r_log[k2].job)
    /\ l_pc = "done" =>
          \A pkg \in Range(l_ctx.packages) : l_idx[pkg] > Len(l_ctx.job.steps)

\* two jobs were run, and commands of both were spawned
C25_Witness ==
    /\ r_pc = "done"
    /\ Len(r_jobs) = 2
    /\ SpawnsOf(r_jobs[1]) # {}
    /\ SpawnsOf(r_jobs[2]) # {}
    /\ r_cfg.needs[r_jobs[2]] = {r_jobs[1]}

\* the calls are, for each package, in the order of the steps
StepsInOrder(calls) ==
    \A k1, k2 \in 1..Len(calls) :
        (k1 < k2 /\ calls[k1].pkg = calls[k2].pkg) => calls[k1].step < calls[k2].step

\* C26: step order within a job is preserved: for every package, a step is
\* dispatched only after the dispatch of every earlier applicable step of the
\* job for that package has finished, in sequential and in parallel mode.
C26_StepOrderPreserved ==
    /\ r_pc \notin {"idle", "env"} =>
          \A k1, k2 \in 1..Len(r_log) :
              (k1 < k2 /\ r_log[k1].job = r_log[k2].job) => r_log[k1].step <= r_log[k2].step
    /\ l_pc # "idle" =>
          /\ StepsInOrder(l_calls)
          /\ l_seq.kind = "returned" => StepsInOrder(l_seq.calls)

\* two steps were executed for two packages in parallel, the packages taking turns
C26_Witness ==
    /\ l_pc = "done"
    /\ Len(l_calls) = 4
    /\ l_calls[1].pkg # l_calls[2].pkg
    /\ l_calls[2].pkg # l_calls[3].pkg
    /\ Len(l_seq.calls) = 4

\* the place of a package in the selection (the first, if it is named twice)
PackageIndex(packages, pkg) ==
    CHOOSE i \in 1..Len(packages) :
        packages[i] = pkg /\ \A j \in 1..(i - 1) : packages[j] # pkg

\* C27: in sequential execution the packages of a step are dispatched in the
\* order of the package selection, so two runs of the same configuration
\* dispatch the same sequence of (step, package).
C27_PackagesInSelectionOrder ==
    r_pc \notin {"idle", "env"} =>
        \A k1, k2 \in 1..Len(r_log) :
            (/\ k1 < k2
             /\ r_log[k1].ev = "message" /\ r_log[k2].ev = "message"
             /\ r_log[k1].job = r_log[k2].job /\ r_log[k1].step = r_log[k2].step
             /\ r_log[k1].pkg # "-" /\ r_log[k2].pkg # "-") =>
                PackageIndex(r_args.packages, r_log[k1].pkg)
                    <= PackageIndex(r_args.packages, r_log[k2].pkg)

\* jobs.rs run_job_sequential: the packages in the order of the selection
LegacySequentialInSelectionOrder ==
    l_seq.kind = "returned" =>
        \A k1, k2 \in 1..Len(l_seq.calls) :
            k1 < k2 => PackageIndex(l_ctx.packages, l_seq.calls[k1].pkg)
                          <= PackageIndex(l_ctx.packages, l_seq.calls[k2].pkg)

(***************************************************************************)
(* Both executors, as dry runs and as real runs, on the inputs of SpecVars *)
(* (expressions that read a variable some sources define) and of           *)
(* SpecLegacy (modifiers the parser rejects).                              *)
(***************************************************************************)
InitDry ==
    \/ /\ \E in \in LayerInputs, d \in BOOLEAN :
            /\ r_host = in.host
            /\ r_cfg = in.cfg
            /\ r_args = [in.args EXCEPT !.dry_run = d]
       /\ r_env = EmptyVars
       /\ r_jobs = <<"a">>
       /\ r_pc = "env"
       /\ r_i = 1
       /\ r_s = 0
       /\ r_coe = FALSE
       /\ r_todo = {}
       /\ r_res = [kind |-> "none"]
       /\ r_outcome = [j \in RunJobIds |-> [activity |-> "none", result |-> [kind |-> "none"]]]
       /\ r_result = [kind |-> "none"]
       /\ r_log = <<>>
       /\ r_fails = 0
       /\ IdleButRun
    \/ InitLegacy

SpecDry == InitDry /\ [][NextExec]_vars

(***************************************************************************)
(* Claims about evaluation in a dry run.                                   *)
(***************************************************************************)
StepCondExpectedAt(s, pkg) ==
    Reference(CurrentJob.steps[s].conditional,
              <<r_env, r_cfg.variables, CurrentJob.variables, PackageVariables(pkg),
                r_args.variable>>)

StepCoeExpectedAt(s, pkg) ==
    Reference(CurrentJob.steps[s].continue_on_error,
              <<r_env, r_cfg.variables, CurrentJob.variables>>
              \o (IF CurrentJob.steps[s].per_package THEN <<PackageVariables(pkg)>> ELSE <<>>)
              \o <<r_args.variable>>)

\* a condition read for step s does not evaluate
IfError(s) ==
    \E pkg \in Range(r_args.packages) :
        \/ JobCondExpected(pkg) = "error"
        \/ JobCondExpected(pkg) = "true" /\ StepCondExpectedAt(s, pkg) = "error"

\* the conditions of step s evaluate, and its continue_on_error does not where
\* the step is to be run
CoeError(s) ==
    /\ ~IfError(s)
    /\ LET to_run == {pkg \in Range(r_args.packages) :
                         JobCondExpected(pkg) = "true" /\ StepCondExpectedAt(s, pkg) = "true"}
       IN  IF Cardinality(to_run) # Len(r_args.packages) \/ CurrentJob.steps[s].per_package
           THEN \E pkg \in to_run : StepCoeExpectedAt(s, pkg) = "error"
           ELSE StepCoeExpectedAt(s, "-") = "error"

DryRunRejectsModifiers ==
    /\ l_seq.kind = "returned"
    /\ l_ctx.dry_run
    /\ MalformedModifiers
    /\ l_seq.result.kind = "err"

(***************************************************************************)
(* Claims about get_transitive_needs.                                      *)
(***************************************************************************)
\* C29: get_transitive_needs(J) returns exactly the ids reachable from J
\* through one or more needs edges: every direct and indirect dependency,
\* nothing else, and (the graph being acyclic) never J itself.
C29_TransitiveNeedsAreTheReachable ==
    s_call.op = "get_transitive_needs" =>
        /\ Range(s_call.out) = TransDeps(s_jobs, s_call.job_id)
        /\ s_call.job_id \notin Range(s_call.out)

\* the result holds a need of a need that is no need of the job itself
C29_Witness ==
    /\ s_call.op = "get_transitive_needs"
    /\ \E n \in s_jobs[s_call.job_id] : \E m \in s_jobs[n] :
          /\ m \notin s_jobs[s_call.job_id]
          /\ m \in Range(s_call.out)

\* C30: get_transitive_needs(J) contains no id twice, is empty for a job
\* without needs, and is idempotent: repeated calls return the same set, and
\* the transitive needs of any member of the result add no id outside it.
C30_TransitiveNeedsIdempotent ==
    s_call.op = "get_transitive_needs" =>
        /\ NoDuplicates(s_call.out)
        /\ s_jobs[s_call.job_id] = {} => s_call.out = <<>>
        /\ \A again \in get_transitive_needs(s_jobs, s_call.job_id) :
              Range(again) = Range(s_call.out)
        /\ \A m \in Range(s_call.out) :
              \A of_member \in get_transitive_needs(s_jobs, m) :
                  Range(of_member) \subseteq Range(s_call.out)

\* two needs of the job share a need, which the result holds once
C30_Witness ==
    /\ s_call.op = "get_transitive_needs"
    /\ \E n1, n2 \in s_jobs[s_call.job_id] :
          /\ n1 # n2
          /\ s_jobs[n1] \cap s_jobs[n2] # {}
    /\ Len(s_call.out) = 3
    /\ NoDuplicates(s_call.out)

(***************************************************************************)
(* Claims about the needs of a constructed graph.                          *)
(***************************************************************************)
\* C31: graph construction fails when the needs of any job name an id that is
\* not a job of the graph, so in every constructed graph each needs id
\* resolves to a job.
C31_UnknownNeedFailsConstruction ==
    /\ g_pc \in {"outer", "dfs"} => AllKnown(jobs_map)
    /\ g_pc = "done" =>
          /\ g_result.kind = "ok" =>
                \A j \in DOMAIN jobs_map : \A n \in jobs_map[j] : n \in DOMAIN jobs_map
          /\ ~AllKnown(jobs_map) =>
                /\ g_result.kind = "unknown"
                /\ g_result.needed \in jobs_map[g_result.job]
                /\ g_result.needed \notin DOMAIN jobs_map

\* construction failed on a need that names no job, in a graph that also has a cycle
C31_Witness ==
    /\ g_pc = "done"
    /\ g_result.kind = "unknown"
    /\ g_result.needed = Ghost
    /\ \E j \in DOMAIN jobs_map : j \in jobs_map[j]

(***************************************************************************)
(* job_result.rs: print_summary over the JobResults of run_job.            *)
(***************************************************************************)
MaxResults == 2

JobNames == <<"a", "b", "c", "d">>

\* jobs.rs 227-264: what run_job returns, here with parallel = false
RunJobReturns(ctx, out) ==
    LET r == run_job_sequential(ctx, out) IN JobResult(ctx, r.ok, r.steps, r.failures)

\* jobs of one or two steps without modifiers, each tolerant or not
SummaryJobs ==
    LET kinds == {[continue_on_error |-> c, modifiers |-> None] : c \in BOOLEAN}
    IN  {[steps |-> <<k>>] : k \in kinds} \cup {[steps |-> <<k, m>>] : k \in kinds, m \in kinds}

\* the JobResults run_job returns for these jobs, over the package selections
\* and every outcome of every command
RunJobResults ==
    {res \in UNION {{RunJobReturns(ctx, out)
                       : out \in [1..Len(ctx.job.steps) ->
                                     [Range(ctx.packages) -> {"ok", "fail"}]]}
                     : ctx \in {[job |-> job, packages |-> ps, dry_run |-> d, keep_going |-> k]
                                  : job \in SummaryJobs, ps \in PackageSelections,
                                    d \in BOOLEAN, k \in BOOLEAN}}
        : res.kind = "ok"}

\* job_result.rs 5-23: JobResult::new(name, packages, steps, failures, dry_run)
NewJobResult(name, res) ==
    [name |-> name, packages |-> res.packages, steps |-> res.steps,
     failures |-> res.failures, dry_run |-> res.dry_run]

\* results: one JobResult per job
InitSummary ==
    /\ p_results \in UNION {{[i \in 1..n |-> NewJobResult(JobNames[i], rs[i])]
                               : rs \in [1..n -> RunJobResults]} : n \in 0..MaxResults}
    /\ p_pc = "jobs"
    /\ p_i = 1
    /\ p_total = [jobs |-> 0, pkgs |-> 0, steps |-> 0, failures |-> 0]
    /\ p_lines = <<>>
    /\ p_out = [kind |-> "none"]
    /\ IdleButSummary

\* line 38
Status(r) == IF r.failures = 0 THEN "OK" ELSE "FAIL"

\* line 39
Mode(r) == IF r.dry_run THEN "dry-run" ELSE "run"

\* a faulty variant of lines 48-52: only the last job's failures decide
OverallOfLast(total_failures) ==
    IF p_results # <<>> /\ p_results[Len(p_results)].failures > 0
    THEN "FAILURE" ELSE "SUCCESS"

\* lines 48-52
Overall(total_failures) == IF total_failures > 0 THEN "FAILURE" ELSE "SUCCESS"

\* lines 33-44: one round of the loop over the results
PrintJobLine ==
    /\ p_pc = "jobs"
    /\ p_i <= Len(p_results)
    /\ LET r == p_results[p_i] IN
       /\ p_total' = [jobs |-> p_total.jobs + 1,
                      pkgs |-> p_total.pkgs + r.packages,
                      steps |-> p_total.steps + r.packages * r.steps,
                      failures |-> p_total.failures + r.failures]
       /\ p_lines' = Append(p_lines, [job |-> r.name, status |-> Status(r),
                                      packages |-> r.packages, steps |-> r.steps,
                                      failures |-> r.failures, mode |-> Mode(r)])
    /\ p_i' = p_i + 1
    /\ UNCHANGED <<p_results, p_pc, p_out, notP>>

\* lines 45-52: the totals and the verdict
PrintTotals ==
    /\ p_pc = "jobs"
    /\ p_i > Len(p_results)
    /\ p_out' = [kind |-> "printed", jobs |-> p_total.jobs, packages |-> p_total.pkgs,
                 steps |-> p_total.steps, failures |-> p_total.failures,
                 overall |-> Overall(p_total.failures)]
    /\ p_pc' = "done"
    /\ UNCHANGED <<p_results, p_i, p_total, p_lines, notP>>

NextSummary ==
    \/ PrintJobLine
    \/ PrintTotals

SpecSummary == InitSummary /\ [][NextSummary]_vars

(***************************************************************************)
(* Claims about the summary.                                               *)
(***************************************************************************)
RECURSIVE SumOf(_, _)
\* the sum of f[1] .. f[n]
SumOf(f, n) == IF n = 0 THEN 0 ELSE f[n] + SumOf(f, n - 1)

Failures == [i \in 1..Len(p_results) |-> p_results[i].failures]

StepsExecuted == [i \in 1..Len(p_results) |-> p_results[i].steps]

\* C32: in the final summary the total failure count is the sum of the
\* failure counts of the jobs, the status of a job is FAIL iff its failure
\* count is greater than 0, and the overall verdict is FAILURE iff at least
\* one job has failures > 0 and SUCCESS otherwise.
C32_SummaryFailuresAndVerdict ==
    /\ p_pc \in {"jobs", "done"} =>
          /\ p_total.failures = SumOf(Failures, p_i - 1)
          /\ \A i \in 1..Len(p_lines) :
                /\ p_lines[i].job = p_results[i].name
                /\ p_lines[i].status \in {"OK", "FAIL"}
                /\ p_lines[i].status = "FAIL" <=> p_results[i].failures > 0
    /\ p_pc = "done" =>
          /\ Len(p_lines) = Len(p_results)
          /\ p_out.failures = SumOf(Failures, Len(p_results))
          /\ p_out.overall \in {"FAILURE", "SUCCESS"}
          /\ p_out.overall = "FAILURE" <=> \E i \in 1..Len(p_results) : p_results[i].failures > 0

\* a summary of two jobs of which only the first had failures
C32_Witness ==
    /\ p_pc = "done"
    /\ Len(p_results) = 2
    /\ p_results[1].failures > 0
    /\ p_results[2].failures = 0
    /\ p_out.overall = "FAILURE"
    /\ p_lines[1].status = "FAIL"
    /\ p_lines[2].status = "OK"

\* C40: the total step count printed in the summary equals the sum over the
\* job results of the steps-executed count recorded in each result, so that
\* no executed (step, package) is counted more than once.
C40_TotalStepsIsTheSum ==
    p_pc = "done" => p_out.steps = SumOf(StepsExecuted, Len(p_results))

\* where the two agree: every job ran for at most one package
TotalStepsOfSinglePackageJobs ==
    p_pc = "done" /\ (\A i \in 1..Len(p_results) : p_results[i].packages = 1)
        => p_out.steps = SumOf(StepsExecuted, Len(p_results))

(***************************************************************************)
(* Claims about the jobs of a run without job names.                       *)
(***************************************************************************)
\* C33: when no job is named on the command line the run executes the
\* configured default_jobs (with their needs), and when no default jobs are
\* configured it executes all defined jobs.
C33_DefaultJobsWhenNoneNamed ==
    (s_call.op = "select_jobs" /\ s_call.args_jobs = {}) =>
        /\ s_call.out.kind = "ok"
        /\ NoDuplicates(s_call.out.jobs)
        /\ default_jobs # {} =>
              Range(s_call.out.jobs) =
                 default_jobs \cup UNION {TransDeps(s_jobs, j) : j \in default_jobs}
        /\ default_jobs = {} => Range(s_call.out.jobs) = DOMAIN s_jobs

\* no job named: the two default jobs come back with a need of theirs that is no
\* default job, and a defined job stays out
C33_Witness ==
    /\ s_call.op = "select_jobs"
    /\ s_call.args_jobs = {}
    /\ s_call.out.kind = "ok"
    /\ default_jobs = {"b", "c"}
    /\ "a" \in Range(s_call.out.jobs)
    /\ "d" \notin Range(s_call.out.jobs)

(***************************************************************************)
(* Claims about the tallies of run_job_parallel.                           *)
(***************************************************************************)
\* whether the closure of pkg goes on to the next step after step s
GoesOn(s, pkg) ==
    LET step == l_ctx.job.steps[s]
        m == ShouldExecute(step, pkg)
    IN  /\ m.ok
        /\ \/ ~m.val
           \/ l_ctx.dry_run
           \/ l_out[s][pkg] = "ok"
           \/ step.continue_on_error
           \/ l_ctx.keep_going

\* the (step, package) pairs the closure of the package comes to
ComesTo ==
    {c \in (1..Len(l_ctx.job.steps)) \X Range(l_ctx.packages)
        : \A t \in 1..(c[1] - 1) : GoesOn(t, c[2])}

\* the pairs whose modifiers let the step run for the package
ReachedExecution ==
    {c \in ComesTo : LET m == ShouldExecute(l_ctx.job.steps[c[1]], c[2]) IN m.ok /\ m.val}

\* modifiers expressions that did not evaluate
ModifierErrors ==
    {c \in ComesTo : ~ShouldExecute(l_ctx.job.steps[c[1]], c[2]).ok}

\* commands that failed or could not be started
CommandFailures ==
    {c \in ReachedExecution : ~l_ctx.dry_run /\ l_out[c[1]][c[2]] # "ok"}

\* C34: in parallel mode, under every interleaving of package workers,
\* aggregation happens only after all workers have finished, and at that point
\* the failure counter equals the number of failure events over all packages
\* (failed or unstartable commands plus modifier-evaluation errors), the number
\* of collected failure messages equals the failure counter, and the
\* steps-executed counter equals the number of (step, package) pairs that
\* reached execution.
C34_ParallelTallies ==
    /\ l_pc \in {"seq", "par"} => l_par.kind = "none"
    /\ l_pc = "done" =>
          /\ \A pkg \in Range(l_ctx.packages) : l_idx[pkg] > Len(l_ctx.job.steps)
          /\ failure_counter = Cardinality(CommandFailures) + Cardinality(ModifierErrors)
          /\ Len(failures_list) = failure_counter
          /\ Cardinality({m \in Range(failures_list) : m.what = "modifiers"})
                = Cardinality(ModifierErrors)
          /\ step_counter = Cardinality(ReachedExecution)
          /\ ~l_ctx.dry_run => step_counter = Len(l_calls) /\ NoDuplicates(l_calls)
          /\ l_par.kind = "ok" =>
                l_par.steps = step_counter /\ l_par.failures = failure_counter

\* two workers: both executed the first step, whose failure for one package the
\* step tolerates, and both ended on a modifiers expression that does not evaluate
C34_Witness ==
    /\ l_pc = "done"
    /\ Len(l_ctx.packages) = 2
    /\ step_counter = 2
    /\ failure_counter = 3
    /\ Len(failures_list) = 3
    /\ failures_list[1].what \in {"failed", "error"}
    /\ failures_list[1].continuing
    /\ failures_list[2].what = "modifiers"
    /\ failures_list[3].what = "modifiers"
    /\ failures_list[2].pkg # failures_list[3].pkg

(***************************************************************************)
(* The run loop over two jobs, a then b, where the conditions and the      *)
(* continue_on_error of job a and of its first step read a variable that   *)
(* the workspace and the package p1 may define, and where commands fail.   *)
(***************************************************************************)
\* the first step of job a
ErrorStepKinds ==
    { [per_package |-> pp, conditional |-> cond, continue_on_error |-> coe,
       variables |-> EmptyVars]
        : pp \in BOOLEAN, cond \in {Bool(TRUE), Eq("X", "w")},
          coe \in {Bool(FALSE), Eq("X", "w"), Eq("X", "p1")} }

ErrorInputs ==
    { [host |-> EmptyHost,
       cfg |-> VarsConfig([steps |-> st, conditional |-> cond, continue_on_error |-> coe,
                           variables |-> EmptyVars],
                          {}, Layer(dw, "w")),
       args |-> [dry_run |-> d, variable |-> EmptyVars, packages |-> ps]]
      : st \in {<<k>> : k \in ErrorStepKinds} \cup {<<k, SimpleStep>> : k \in ErrorStepKinds},
        cond \in {Bool(TRUE), Eq("X", "w")},
        coe \in {Bool(FALSE), Bool(TRUE), Eq("X", "w")},
        dw \in BOOLEAN, d \in BOOLEAN,
        ps \in {<<"p0">>, <<"p1">>, <<"p0", "p1">>} }

InitErrors ==
    /\ \E in \in ErrorInputs :
         /\ r_host = in.host
         /\ r_cfg = in.cfg
         /\ r_args = in.args
    /\ r_env = EmptyVars
    /\ r_jobs = <<"a", "b">>
    /\ r_pc = "env"
    /\ r_i = 1
    /\ r_s = 0
    /\ r_coe = FALSE
    /\ r_todo = {}
    /\ r_res = [kind |-> "none"]
    /\ r_outcome = [j \in RunJobIds |-> [activity |-> "none", result |-> [kind |-> "none"]]]
    /\ r_result = [kind |-> "none"]
    /\ r_log = <<>>
    /\ r_fails = 0
    /\ IdleButRun

SpecErrors == InitErrors /\ [][NextRun]_vars

(***************************************************************************)
(* Claims about the evaluation of continue_on_error.                       *)
(***************************************************************************)
\* the continue_on_error of the job evaluates
JobCoeEvaluates(id) == Evaluate(r_cfg.jobs[id].continue_on_error, JobCoeVars).ok

\* the continue_on_error of step s of the job evaluates for the package
StepCoeEvaluates(id, s, pkg) ==
    LET job == r_cfg.jobs[id] IN
    Evaluate(job.steps[s].continue_on_error, StepCoeVars(job, job.steps[s], pkg)).ok

\* nothing of the job is in the log from step s on, nor (step s, pkg)
NotDispatchedFrom(id, s, pkg) ==
    \A k \in EventsOf(id) :
        /\ r_log[k].step <= s
        /\ ~(r_log[k].step = s /\ r_log[k].pkg = pkg)

\* what is evaluated before what, whether or not a command fails
ContinueOnErrorEvaluatedFirst ==
    /\ \A id \in Range(r_jobs) :
          /\ EventsOf(id) # {} => JobCoeEvaluates(id)
          /\ r_outcome[id].activity # "none" => JobCoeEvaluates(id)
    /\ \A i \in 1..Len(r_jobs) :
          (r_i = i /\ r_pc \in {"step", "pp", "ws", "finish"}) => JobCoeEvaluates(r_jobs[i])
    /\ \A i \in 1..Len(r_jobs) :
          (r_i = i /\ r_pc = "done" /\ ~JobCoeEvaluates(r_jobs[i])) =>
              /\ r_result = Err(r_jobs[i], 0, "-", "continue_on_error")
              /\ \A k \in i..Len(r_jobs) : EventsOf(r_jobs[k]) = {}
    /\ \A k \in DOMAIN r_log : StepCoeEvaluates(r_log[k].job, r_log[k].step, r_log[k].pkg)

\* C35: the job-level continue_on_error is evaluated before any step of the
\* job is dispatched, and the continue_on_error of a step for a (step, package)
\* is evaluated before the command of that pair is dispatched, also when no
\* command fails; an evaluation error ends the run without dispatching that
\* command.
C35_EagerContinueOnError ==
    /\ ContinueOnErrorEvaluatedFirst
    /\ \A id \in Range(r_jobs) :
          LET res == r_outcome[id].result IN
          (res.kind = "err" /\ res.why = "continue_on_error") =>
              /\ NotDispatchedFrom(id, res.step, res.pkg)
              /\ r_pc = "done"
              /\ r_result = res

\* what holds instead: the error ends the job, and the run when the
\* continue_on_error of the job is false
StepCoeErrorEndsJob ==
    /\ ContinueOnErrorEvaluatedFirst
    /\ \A id \in Range(r_jobs) :
          LET res == r_outcome[id].result IN
          (res.kind = "err" /\ res.why = "continue_on_error") =>
              /\ NotDispatchedFrom(id, res.step, res.pkg)
              /\ r_outcome[id].activity = IF JobContinueOnError(id)
                                          THEN "failed, but ignored" ELSE "failed"
              /\ ~JobContinueOnError(id) => r_pc = "done" /\ r_result = res
              /\ JobContinueOnError(id) /\ r_pc = "done" =>
                    r_result.kind = "ok" \/ r_result.job # id

(***************************************************************************)
(* Claims about commands that cannot be started or waited on.              *)
(***************************************************************************)
\* the value of the continue_on_error of the pair of log entry k
CoeOfEvent(k) ==
    LET job == r_cfg.jobs[r_log[k].job]
        step == job.steps[r_log[k].step]
    IN  Evaluate(step.continue_on_error, StepCoeVars(job, step, r_log[k].pkg)).val

\* commands/run.rs: whatever way the command of a spawn did not succeed
\* (non-zero exit, wait error, start error), it is reported, tolerated when
\* continue_on_error is true for the pair and else the error of the job
RunHandlesEveryFailureAlike ==
    \A k \in DOMAIN r_log :
        (r_log[k].ev = "spawn" /\ r_log[k].status \in {"failed", "wait_error", "spawn_error"}) =>
            LET e == r_log[k]
                error == Err(e.job, e.step, e.pkg, "command")
            IN  /\ k < Len(r_log)
                /\ r_log[k + 1] = CommandError(e.job, e.step, e.pkg, ~CoeOfEvent(k))
                /\ IF CoeOfEvent(k)
                   THEN /\ r_res # error
                        /\ r_outcome[e.job].result # error
                        /\ r_result # error
                   ELSE /\ \A m \in EventsOf(e.job) : m <= k + 1
                        /\ (/\ r_i <= Len(r_jobs)
                            /\ r_jobs[r_i] = e.job
                            /\ r_pc \in {"finish", "pp", "ws", "step"})
                              => r_pc = "finish" /\ r_res = error
                        /\ r_outcome[e.job].activity # "none"
                              => r_outcome[e.job].result = error

\* the outcomes with every command that cannot be started failing instead
StartErrorsAsFailures ==
    [x \in DOMAIN l_out |->
        [pkg \in DOMAIN l_out[x] |-> IF l_out[x][pkg] = "err" THEN "fail" ELSE l_out[x][pkg]]]

\* jobs.rs: run_job comes to the same calls, tallies and result when the
\* commands that cannot be started fail instead, and every such command is
\* counted and reported
LegacyHandlesStartErrorsAsFailures ==
    /\ l_seq.kind = "returned" =>
          LET r == run_job_sequential(l_ctx, StartErrorsAsFailures) IN
          /\ l_seq.result = JobResult(l_ctx, r.ok, r.steps, r.failures)
          /\ l_seq.calls = r.calls
    /\ l_pc = "done" =>
          /\ failure_counter = Cardinality(CommandFailures) + Cardinality(ModifierErrors)
          /\ \A k \in 1..Len(l_calls) :
                l_out[l_calls[k].step][l_calls[k].pkg] # "ok" =>
                    \E m \in 1..Len(failures_list) :
                        /\ failures_list[m].pkg = l_calls[k].pkg
                        /\ failures_list[m].step = l_calls[k].step
                        /\ failures_list[m].continuing
                              = LegacySteps[l_calls[k].step].continue_on_error

\* start and wait errors are handled like non-zero exits, by both executors
StartErrorsHandledAlike ==
    /\ r_pc # "idle" => RunHandlesEveryFailureAlike
    /\ l_pc # "idle" => LegacyHandlesStartErrorsAsFailures

\* C36: a command that cannot be started or cannot be waited on is handled
\* exactly like a command that exits non-zero: it is tolerated iff
\* continue_on_error is true for that (step, package), otherwise it is
\* propagated and fails the job; it is never silently dropped.
C36_StartErrorsLikeFailedCommands ==
    /\ StartErrorsHandledAlike
    /\ l_pc # "idle" => LegacyStopsAtFailure /\ LegacyToleratesFailure

(***************************************************************************)
(* A dry run and then a real run of the same command line: run_jobs on the *)
(* inputs of SpecErrors with --dry-run and again without; and run_job of   *)
(* jobs.rs.                                                                *)
(***************************************************************************)
InitTwice ==
    \/ InitErrors /\ r_args.dry_run
    \/ InitLegacy

\* the command is given again without --dry-run: run_jobs starts over on the
\* same configuration, packages and variables
Rerun ==
    /\ r_pc = "done"
    /\ r_args.dry_run
    /\ r_plan.kind = "none"
    /\ r_plan' = [kind |-> "dry", log |-> r_log, result |-> r_result, outcome |-> r_outcome]
    /\ r_args' = [r_args EXCEPT !.dry_run = FALSE]
    /\ r_env' = EmptyVars
    /\ r_pc' = "env"
    /\ r_i' = 1
    /\ r_s' = 0
    /\ r_coe' = FALSE
    /\ r_todo' = {}
    /\ r_res' = [kind |-> "none"]
    /\ r_outcome' = [j \in RunJobIds |-> [activity |-> "none", result |-> [kind |-> "none"]]]
    /\ r_result' = [kind |-> "none"]
    /\ r_log' = <<>>
    /\ r_fails' = 0
    /\ UNCHANGED <<r_host, r_cfg, r_jobs, gVars, sVars, lVars, mVars, pVars>>

NextTwice ==
    \/ NextRun
    \/ Rerun
    \/ NextLegacy

SpecTwice == InitTwice /\ [][NextTwice]_vars

(***************************************************************************)
(* Claims about the plan of a dry run.                                     *)
(***************************************************************************)
\* the (job, step, package) of the entries of one kind
PairsIn(log, ev) ==
    {<<log[k].job, log[k].step, log[k].pkg>> : k \in {x \in DOMAIN log : log[x].ev = ev}}

\* which (job, step) has an entry of the kind before which
StepOrderIn(log, ev) ==
    {<<<<log[k1].job, log[k1].step>>, <<log[k2].job, log[k2].step>>>>
        : <<k1, k2>> \in {c \in (DOMAIN log) \X (DOMAIN log)
                             : c[1] < c[2] /\ log[c[1]].ev = ev /\ log[c[2]].ev = ev}}

\* the real run has ended and every command it spawned succeeded
RealRunSucceeded ==
    /\ r_plan.kind = "dry"
    /\ r_pc = "done"
    /\ \A k \in DOMAIN r_log : r_log[k].ev = "spawn" => r_log[k].status = "ok"

\* every command succeeding
EveryCommandSucceeds == [x \in DOMAIN l_out |-> [pkg \in DOMAIN l_out[x] |-> "ok"]]

\* jobs.rs: a dry run counts the steps a real run executes
LegacyPlanIsExecuted ==
    l_seq.kind = "returned" =>
        LET dry == run_job_sequential([l_ctx EXCEPT !.dry_run = TRUE], l_out)
            real == run_job_sequential([l_ctx EXCEPT !.dry_run = FALSE], EveryCommandSucceeds)
        IN  /\ dry.calls = <<>>
            /\ dry.ok = real.ok
            /\ dry.steps = real.steps
            /\ real.steps = Len(real.calls)
            /\ StepsInOrder(real.calls)

\* C37: for the same configuration, package selection and variables, the
\* (step, package) combinations reported as planned by a dry run are exactly
\* those dispatched by a real run in which every command succeeds, with the
\* steps in the same order.
C37_DryRunPlanIsTheRealRun ==
    /\ RealRunSucceeded =>
          /\ PairsIn(r_plan.log, "message") = PairsIn(r_log, "spawn")
          /\ StepOrderIn(r_plan.log, "message") = StepOrderIn(r_log, "spawn")
    /\ l_pc # "idle" => LegacyPlanIsExecuted

\* the same for the runs in which every expression that is read evaluates
PlanIsTheRealRunWhenAllEvaluates ==
    /\ (/\ RealRunSucceeded
        /\ \A id \in RunJobIds : r_plan.outcome[id].result.kind # "err"
        /\ r_plan.result.kind = "ok") =>
          /\ PairsIn(r_plan.log, "message") = PairsIn(r_log, "spawn")
          /\ StepOrderIn(r_plan.log, "message") = StepOrderIn(r_log, "spawn")
          /\ r_result = r_plan.result
          /\ r_outcome = r_plan.outcome
    /\ l_pc # "idle" => LegacyPlanIsExecuted

(***************************************************************************)
(* Termination.  run_jobs is one thread that executes statement after      *)
(* statement; the only place it waits is wait_with_output, which returns   *)
(* when the spawned command exits.  A step that is possible is therefore   *)
(* taken.                                                                  *)
(***************************************************************************)
SpecErrorsLive == InitErrors /\ [][NextRun]_vars /\ WF_vars(NextRun)

\* the job at place i of the list was started (start_activity, line 101)
Started(i) == r_i >= i

\* the job at place k failed and its continue_on_error is false
FailedForGood(k) ==
    /\ r_outcome[r_jobs[k]].result.kind = "err"
    /\ ~JobContinueOnError(r_jobs[k])

\* run_jobs returned the error of an expression that did not evaluate
EvaluationErrorEndedRun ==
    r_result.kind = "err" /\ r_result.why \in {"if", "continue_on_error"}

EveryJobStartedUnless ==
    \A i \in 1..Len(r_jobs) :
        \/ Started(i)
        \/ \E k \in 1..(i - 1) : FailedForGood(k)
        \/ EvaluationErrorEndedRun

\* C38: assuming every spawned command eventually exits, a run terminates, and
\* every job of the sorted order is eventually started unless an earlier job
\* failed with job-level continue_on_error false or an expression-evaluation
\* error ended the run.
C38_RunTerminatesAndStartsJobs ==
    <>[](r_pc = "done" /\ r_result.kind \in {"ok", "err"} /\ EveryJobStartedUnless)

\* run_jobs returned after job b was run although a command of job a had failed
C38_Witness ==
    /\ r_pc = "done"
    /\ r_outcome["a"].result.kind = "err"
    /\ r_outcome["a"].result.why = "command"
    /\ r_outcome["a"].activity = "failed, but ignored"
    /\ r_outcome["b"].activity = "ran"
    /\ r_result.kind = "ok"

(***************************************************************************)
(* Claims about what run_jobs returns.                                     *)
(***************************************************************************)
\* the continue_on_error of the job run_jobs came to did not evaluate
JobCoeFailed ==
    r_i <= Len(r_jobs) /\ ~JobCoeEvaluates(r_jobs[r_i])

\* run_job returned the error of a condition or of a continue_on_error
EvaluationFailedIn(id) ==
    /\ r_outcome[id].result.kind = "err"
    /\ r_outcome[id].result.why \in {"if", "continue_on_error"}

\* the job failed and its continue_on_error evaluated to false
FailedUntolerated(id) ==
    /\ r_outcome[id].result.kind = "err"
    /\ ~JobContinueOnError(id)

\* C39: run_jobs returns an error (non-zero exit) iff an expression evaluation
\* failed or some job failed whose job-level continue_on_error evaluated to
\* false; a run in which every failure was tolerated by step-level or
\* job-level continue_on_error returns success (exit code 0).
C39_ErrorIffUntoleratedFailure ==
    r_pc = "done" =>
        /\ r_result.kind = "err" <=>
              \/ JobCoeFailed
              \/ \E id \in Range(r_jobs) : EvaluationFailedIn(id)
              \/ \E id \in Range(r_jobs) : FailedUntolerated(id)
        /\ (~JobCoeFailed /\ \A id \in Range(r_jobs) :
                                 r_outcome[id].result.kind = "err" =>
                                     /\ r_outcome[id].result.why = "command"
                                     /\ JobContinueOnError(id))
              => r_result.kind = "ok"

\* what holds instead: an evaluation error inside a job counts as a failure of
\* the job, which the continue_on_error of the job tolerates
ErrorIffJobFailedUntolerated ==
    r_pc = "done" =>
        /\ r_result.kind = "err" <=>
              \/ JobCoeFailed
              \/ \E id \in Range(r_jobs) : FailedUntolerated(id)
        /\ r_result.kind = "err" /\ ~JobCoeFailed =>
              \E id \in Range(r_jobs) : FailedUntolerated(id) /\ r_result = r_outcome[id].result
        /\ (~JobCoeFailed /\ \A id \in Range(r_jobs) :
                                 r_outcome[id].result.kind = "err" => JobContinueOnError(id))
              => r_result.kind = "ok"

====
